---- MODULE Spec2Model ----
(***************************************************************************)
(* Model of the google-ads-mcp tool server: the call-tool dispatcher, the  *)
(* zod argument schemas of the registered tools, and the handlers of the   *)
(* registered tools (query / mutation builders and result shaping).        *)
(*                                                                         *)
(* One tool invocation is a small state machine: the dispatcher looks the  *)
(* name up, parses the argument bag, runs the handler up to its first      *)
(* await of the external client, and is resumed when the external client   *)
(* returns or raises.  Spec is the server: call-tool and list-tools        *)
(* requests.  ExportedSpec calls exported handlers directly, with parsed   *)
(* arguments: the campaign, ad, conversion-action, comparison and shopping *)
(* handlers, and getTopBottomKeywords against an account of keyword rows   *)
(* that answers its queries.  ConcurrentSpec interleaves two invocations,  *)
(* each resumed from its own arguments and its own client handle.          *)
(***************************************************************************)
EXTENDS Integers, Sequences, FiniteSets, TLC

\* Bounds of the model.
MaxRows == 2
MaxKeywords == 2
MaxBudget == 210

----------------------------------------------------------------------------
\* JavaScript values of the argument bag: undefined, strings, numbers, booleans.

U == [k |-> "undefined", s |-> "", n |-> 0]
Str(x) == [k |-> "string", s |-> x, n |-> 0]
Num(i) == [k |-> "number", s |-> "", n |-> i]
Bool(b) == [k |-> "boolean", s |-> "", n |-> IF b THEN 1 ELSE 0]
Null == [k |-> "null", s |-> "", n |-> 0]

\* A number with two decimals, h / 100: a whole number when it is one, a
\* count of hundredths otherwise.
Decimal(h) ==
  IF h % 100 = 0 THEN Num(h \div 100) ELSE [k |-> "number", s |-> "e-2", n |-> h]

\* Number.isInteger
IsInteger(v) == v.k = "number" /\ v.s = ""

RECURSIVE Exp2(_)
Exp2(k) == IF k = 0 THEN 1 ELSE 2 * Exp2(k - 1)

\* 2^k modulo 100
RECURSIVE Exp2Mod100(_)
Exp2Mod100(k) == IF k = 0 THEN 1 ELSE (2 * Exp2Mod100(k - 1)) % 100

\* The binary exponent e of h / 100: 2^e <= h / 100 < 2^(e + 1), for
\* 1 <= h < 204800.
BinaryExponent(h) ==
  CHOOSE e \in -7..10 : Exp2(e + 7) * 100 <= h * 128 /\ h * 128 < Exp2(e + 8) * 100

\* The IEEE-754 double product (h / 100) * 1000000 against the integer
\* h * 10000, in units in the last place.  The double nearest to h / 100 is
\* M * 2^(e - 52) with M = (h * 2^(52 - e) + d) / 100, where d is the signed
\* remainder below; the exact product is then off by 156.25 * d units of
\* 2^(e - 46), and it is rounded to a multiple of 2^13 of these units when
\* h * 10000 < 2^(e + 20) and of 2^14 otherwise.
ProductUlps(h) ==
  LET e == BinaryExponent(h)
      r == ((h % 100) * Exp2Mod100(52 - e)) % 100
      d == IF r <= 50 THEN 0 - r ELSE 100 - r
  IN IF h * 10000 < Exp2(e + 20)
       THEN (IF 4 * d > 104 THEN 1 ELSE IF 4 * d < -104 THEN -1 ELSE 0)
       ELSE 0

\* value * 1_000_000 in double arithmetic: the integer itself, or the double
\* next above or below it.
TimesMillion(v) ==
  CASE v.s = "" -> Num(v.n * 1000000)
    [] v.s = "e-2" ->
         LET a == IF v.n < 0 THEN 0 - v.n ELSE v.n
             u == ProductUlps(a) * (IF v.n < 0 THEN -1 ELSE 1)
         IN [k |-> "number",
             s |-> IF u = 1 THEN "+ulp" ELSE IF u = -1 THEN "-ulp" ELSE "",
             n |-> v.n * 10000]

\* JavaScript truthiness, as used by `if (params.x)` and `!params.x`.
Truthy(v) ==
  CASE v.k = "undefined" -> FALSE
    [] v.k = "string" -> v.s # ""
    [] v.k = "number" -> v.n # 0
    [] v.k = "boolean" -> v.n = 1
    [] v.k = "null" -> FALSE
    [] OTHER -> TRUE

\* A thrown value: an Error instance with a message, or any other value.
Error(m) == [isError |-> TRUE, isMcp |-> FALSE, code |-> "", msg |-> m]
NonError == [isError |-> FALSE, isMcp |-> FALSE, code |-> "", msg |-> <<"[object]">>]
McpError(c, m) == [isError |-> TRUE, isMcp |-> TRUE, code |-> c, msg |-> m]

\* `${error.message}` inside a template string: undefined for a value
\* without a message property.
MessageOf(e) == IF e.isError THEN e.msg ELSE <<"undefined">>

----------------------------------------------------------------------------
\* zod schema combinators.

zString == [type |-> "string", enum |-> {}, optional |-> FALSE, hasDefault |-> FALSE, dflt |-> U]
zNumber == [type |-> "number", enum |-> {}, optional |-> FALSE, hasDefault |-> FALSE, dflt |-> U]
zBoolean == [type |-> "boolean", enum |-> {}, optional |-> FALSE, hasDefault |-> FALSE, dflt |-> U]
zEnum(S) == [type |-> "enum", enum |-> S, optional |-> FALSE, hasDefault |-> FALSE, dflt |-> U]
zOptional(sp) == [sp EXCEPT !.optional = TRUE]
zDefault(sp, d) == [sp EXCEPT !.optional = TRUE, !.hasDefault = TRUE, !.dflt = d]

\* The type test of one scalar schema on a defined value.
TypeOk(sp, v) ==
  CASE sp.type = "string" -> v.k = "string"
    [] sp.type = "number" -> v.k = "number"
    [] sp.type = "boolean" -> v.k = "boolean"
    [] sp.type = "enum" -> v.k = "string" /\ v.s \in sp.enum

\* A parse that falls back to the default when the value fails the type test.
ParseFieldDefaultsInvalid(sp, v) ==
  IF v.k = "undefined" \/ (sp.hasDefault /\ ~TypeOk(sp, v))
    THEN IF sp.hasDefault THEN [ok |-> TRUE, v |-> sp.dflt]
         ELSE [ok |-> sp.optional, v |-> U]
    ELSE [ok |-> TypeOk(sp, v), v |-> v]

\* schema.parse of one scalar field: undefined takes the default or passes
\* when optional; a defined value must pass the type test.
ParseField(sp, v) ==
  IF v.k = "undefined"
    THEN IF sp.hasDefault THEN [ok |-> TRUE, v |-> sp.dflt]
         ELSE [ok |-> sp.optional, v |-> U]
    ELSE [ok |-> TypeOk(sp, v), v |-> v]

\* z.array(z.object(item)) and z.object(shape): one level of nesting, the
\* inner fields are scalar.
zArray(it) == [type |-> "array", enum |-> {}, optional |-> FALSE, hasDefault |-> FALSE, dflt |-> U, item |-> it]
zObject(sh) == [type |-> "object", enum |-> {}, optional |-> FALSE, hasDefault |-> FALSE, dflt |-> U, item |-> sh]

\* Array and object values of the argument bag.
Arr(items) == [k |-> "array", items |-> items]
Obj(fields) == [k |-> "object", fields |-> fields]

\* A key that is not in an object reads as undefined.
Get(o, f) == IF f \in DOMAIN o THEN o[f] ELSE U

\* z.object(shape).parse on a plain object of scalar fields: every declared
\* field is parsed, keys that are not declared are stripped.
ParseShape(shape, o) ==
  [ok |-> \A f \in DOMAIN shape : ParseField(shape[f], Get(o, f)).ok,
   v |-> [f \in DOMAIN shape |-> ParseField(shape[f], Get(o, f)).v]]

\* schema.parse of one declared field of a tool schema.
ParseAny(sp, v) ==
  CASE sp.type = "array" ->
         IF v.k = "array"
           THEN [ok |-> \A i \in 1..Len(v.items) : ParseShape(sp.item, v.items[i]).ok,
                 v |-> Arr([i \in 1..Len(v.items) |-> ParseShape(sp.item, v.items[i]).v])]
           ELSE [ok |-> FALSE, v |-> U]
    [] sp.type = "object" ->
         IF v.k = "object"
           THEN [ok |-> ParseShape(sp.item, v.fields).ok,
                 v |-> Obj(ParseShape(sp.item, v.fields).v)]
           ELSE [ok |-> v.k = "undefined" /\ sp.optional, v |-> U]
    [] OTHER -> ParseField(sp, v)

\* The order in which issues are reported.
FieldOrder ==
  <<"campaignId", "adGroupId", "keywordId", "name", "budget",
    "advertisingChannelType", "status", "cpcBidMicros", "cpmBidMicros",
    "targetCpaMicros", "targetRoas", "keywords", "dateRange",
    "customDateRange", "limit", "includeRemoved", "minImpressions">>

\* The declared fields of a schema that reject the bag.
Issues(schema, bag) ==
  {f \in DOMAIN schema : ~ParseAny(schema[f], Get(bag, f)).ok}

\* The ZodError thrown by schema.parse: its message lists the path of
\* every issue.
ZodError(schema, bag) ==
  Error(<<"ZodError">> \o SelectSeq(FieldOrder, LAMBDA f : f \in Issues(schema, bag)))

\* The value returned by schema.parse when no field rejects.
Parsed(schema, bag) ==
  [f \in DOMAIN schema |-> ParseAny(schema[f], Get(bag, f)).v]

----------------------------------------------------------------------------
\* The schemas of the registered tools.

DateRange13 ==
  {"TODAY", "YESTERDAY", "LAST_7_DAYS", "LAST_14_DAYS", "LAST_30_DAYS",
   "THIS_MONTH", "LAST_MONTH", "THIS_QUARTER", "LAST_QUARTER", "THIS_YEAR",
   "LAST_YEAR", "ALL_TIME", "CUSTOM"}
DateRange7 ==
  {"TODAY", "YESTERDAY", "LAST_7_DAYS", "LAST_30_DAYS", "THIS_MONTH",
   "LAST_MONTH", "CUSTOM"}
customDateRangeShape == [startDate |-> zString, endDate |-> zString]

listCampaignsSchema ==
  [limit |-> zDefault(zNumber, Num(50)),
   includeRemoved |-> zDefault(zBoolean, Bool(FALSE)),
   dateRange |-> zDefault(zEnum(DateRange13), Str("ALL_TIME")),
   customDateRange |-> zOptional(zObject(customDateRangeShape))]

createCampaignSchema ==
  [name |-> zString,
   budget |-> zNumber,
   advertisingChannelType |-> zEnum({"SEARCH", "DISPLAY", "SHOPPING", "VIDEO", "MULTI_CHANNEL"}),
   status |-> zDefault(zEnum({"ENABLED", "PAUSED"}), Str("PAUSED"))]

updateCampaignSchema ==
  [campaignId |-> zString,
   name |-> zOptional(zString),
   status |-> zOptional(zEnum({"ENABLED", "PAUSED", "REMOVED"})),
   budget |-> zOptional(zNumber)]

addKeywordsSchema ==
  [adGroupId |-> zString,
   keywords |-> zArray([text |-> zString,
                        matchType |-> zEnum({"EXACT", "PHRASE", "BROAD"}),
                        cpcBidMicros |-> zOptional(zNumber)])]

addNegativeKeywordsSchema ==
  [campaignId |-> zOptional(zString),
   adGroupId |-> zOptional(zString),
   keywords |-> zArray([text |-> zString,
                        matchType |-> zEnum({"EXACT", "PHRASE", "BROAD"})])]

updateKeywordSchema ==
  [keywordId |-> zString,
   adGroupId |-> zString,
   status |-> zOptional(zEnum({"ENABLED", "PAUSED", "REMOVED"})),
   cpcBidMicros |-> zOptional(zNumber)]

getSearchTermsReportSchema ==
  [campaignId |-> zOptional(zString),
   adGroupId |-> zOptional(zString),
   dateRange |-> zDefault(zEnum(DateRange7), Str("LAST_7_DAYS")),
   customDateRange |-> zOptional(zObject(customDateRangeShape)),
   limit |-> zDefault(zNumber, Num(100)),
   minImpressions |-> zDefault(zNumber, Num(10))]

listAdGroupsSchema ==
  [campaignId |-> zOptional(zString),
   limit |-> zDefault(zNumber, Num(100)),
   includeRemoved |-> zDefault(zBoolean, Bool(FALSE))]

\* A createAdGroupSchema whose name is optional.
createAdGroupSchemaNameOptional ==
  [campaignId |-> zString,
   name |-> zOptional(zString),
   status |-> zDefault(zEnum({"ENABLED", "PAUSED"}), Str("ENABLED")),
   cpcBidMicros |-> zOptional(zNumber),
   cpmBidMicros |-> zOptional(zNumber),
   targetCpaMicros |-> zOptional(zNumber),
   targetRoas |-> zOptional(zNumber)]

createAdGroupSchema ==
  [campaignId |-> zString,
   name |-> zString,
   status |-> zDefault(zEnum({"ENABLED", "PAUSED"}), Str("ENABLED")),
   cpcBidMicros |-> zOptional(zNumber),
   cpmBidMicros |-> zOptional(zNumber),
   targetCpaMicros |-> zOptional(zNumber),
   targetRoas |-> zOptional(zNumber)]

updateAdGroupSchema ==
  [adGroupId |-> zString,
   name |-> zOptional(zString),
   status |-> zOptional(zEnum({"ENABLED", "PAUSED", "REMOVED"})),
   cpcBidMicros |-> zOptional(zNumber),
   cpmBidMicros |-> zOptional(zNumber),
   targetCpaMicros |-> zOptional(zNumber),
   targetRoas |-> zOptional(zNumber)]

getAdGroupSchema == [adGroupId |-> zString]

listAdsSchema ==
  [adGroupId |-> zOptional(zString),
   campaignId |-> zOptional(zString),
   limit |-> zDefault(zNumber, Num(100)),
   includeRemoved |-> zDefault(zBoolean, Bool(FALSE))]

\* The names of the tools the list-tools handler returns.
workingTools ==
  {"list_campaigns", "create_campaign", "update_campaign", "list_ad_groups",
   "get_ad_group", "create_ad_group", "update_ad_group", "list_ads",
   "add_keywords", "add_negative_keywords", "update_keyword",
   "get_search_terms_report"}

\* One entry of the tool listing: the name and the `required` list of the
\* advertised inputSchema.
Tool(n, req) == [name |-> n, required |-> req]

\* allTools = workingTools, the array the list-tools handler returns.
allTools ==
  <<Tool("list_campaigns", <<>>),
    Tool("create_campaign", <<"name", "budget", "advertisingChannelType">>),
    Tool("update_campaign", <<"campaignId">>),
    Tool("list_ad_groups", <<>>),
    Tool("get_ad_group", <<"adGroupId">>),
    Tool("create_ad_group", <<"campaignId", "name">>),
    Tool("update_ad_group", <<"adGroupId">>),
    Tool("list_ads", <<>>),
    Tool("add_keywords", <<"adGroupId", "keywords">>),
    Tool("add_negative_keywords", <<"keywords">>),
    Tool("update_keyword", <<"keywordId", "adGroupId">>),
    Tool("get_search_terms_report", <<>>)>>

\* The tools the README lists under "Available Tools".
ReadmeTools ==
  {"list_campaigns", "create_campaign", "update_campaign",
   "list_ad_groups", "create_ad_group", "update_ad_group", "get_ad_group",
   "list_ads", "create_responsive_search_ad", "update_ad_status",
   "list_keywords", "add_keywords", "add_negative_keywords", "update_keyword",
   "list_conversions", "create_conversion", "update_conversion",
   "get_account_performance", "get_campaign_performance",
   "get_ad_group_performance", "get_search_terms_report",
   "get_shopping_performance", "get_product_performance",
   "list_accounts", "get_account_hierarchy"}

\* The names the call-tool switch has a case for.
SwitchCases ==
  {"list_campaigns", "create_campaign", "update_campaign", "add_keywords",
   "add_negative_keywords", "update_keyword", "get_search_terms_report",
   "list_ad_groups", "create_ad_group", "update_ad_group", "get_ad_group",
   "list_ads"}

\* The schema each case of the switch parses the arguments with.
SchemaOf(name) ==
  CASE name = "list_campaigns" -> listCampaignsSchema
    [] name = "create_campaign" -> createCampaignSchema
    [] name = "update_campaign" -> updateCampaignSchema
    [] name = "add_keywords" -> addKeywordsSchema
    [] name = "add_negative_keywords" -> addNegativeKeywordsSchema
    [] name = "update_keyword" -> updateKeywordSchema
    [] name = "get_search_terms_report" -> getSearchTermsReportSchema
    [] name = "list_ad_groups" -> listAdGroupsSchema
    [] name = "create_ad_group" -> createAdGroupSchema
    [] name = "update_ad_group" -> updateAdGroupSchema
    [] name = "get_ad_group" -> getAdGroupSchema
    [] name = "list_ads" -> listAdsSchema

\* schema.parse(args) of a tool schema: the bag itself must be an object.
ParseOk(schema, a) == a.k = "object" /\ Issues(schema, a.fields) = {}
ParseError(schema, a) ==
  IF a.k = "object" THEN ZodError(schema, a.fields) ELSE Error(<<"ZodError">>)

----------------------------------------------------------------------------
\* The external client: requests, responses and settlements of an await.

\* googleAdsConfig.customerId, resolved once at process start.
CustomerId == "1234567890"

\* One condition of a query.  `word` is the keyword a template string
\* writes in front of the condition ("WHERE" or "AND"); it is empty for a
\* condition of a conditions array, which the handler joins by AND behind
\* one WHERE, and for a clause appended with no keyword.
Cond(l, o, r) == [lhs |-> l, op |-> o, rhs |-> r, rhs2 |-> U, word |-> ""]
Between(l, a, b) == [lhs |-> l, op |-> "BETWEEN", rhs |-> a, rhs2 |-> b, word |-> ""]
Lit(w, c) == [c EXCEPT !.word = w]

NoQuery ==
  [from |-> "", select |-> {}, where |-> <<>>, orderBy |-> "", dir |-> "", limit |-> U]

\* customer.query(gaql)
QueryReq(q) ==
  [kind |-> "query", service |-> "customer", method |-> "query",
   query |-> q, operations |-> <<>>, single |-> FALSE]

\* customer.<service>.<method>(resource) and (operations)
MutateOne(svc, m, o) ==
  [kind |-> "mutate", service |-> svc, method |-> m,
   query |-> NoQuery, operations |-> <<o>>, single |-> TRUE]
MutateMany(svc, m, os) ==
  [kind |-> "mutate", service |-> svc, method |-> m,
   query |-> NoQuery, operations |-> os, single |-> FALSE]

\* One resource operation: the resource object and, when the caller builds
\* one, the update mask.
CreateOp(fs) == [type |-> "create", fields |-> fs, hasMask |-> FALSE, paths |-> <<>>]
UpdateOp(fs) == [type |-> "update", fields |-> fs, hasMask |-> FALSE, paths |-> <<>>]
UpdateMaskOp(fs, ps) == [type |-> "update", fields |-> fs, hasMask |-> TRUE, paths |-> ps]

\* Rows and results the external API can answer with.
BudgetNames == {"customers/1234567890/campaignBudgets/7", "customers/1234567890/campaignBudgets/8"}
Row == [id : {"1", "2"}, budget_rn : {""} \cup BudgetNames]

\* Rows of the list_campaigns query: the id and the monetary fields, in
\* micros; the budget is absent for a campaign without one.
CampaignRow ==
  [id : {"1", "2"},
   amount_micros : {U, Num(2500000)},
   cost_micros : {Num(0), Num(2500000)},
   average_cpc : {Num(500000)},
   cost_per_conversion : {Num(1500000)},
   conversion_rate : {Decimal(5)}]

\* Rows of the reporting queries: the metrics the handlers derive ratios
\* from.  Amounts are in micros; a field the API left out is absent.
MetricsFields ==
  {"campaign.id", "metrics.clicks", "metrics.impressions", "metrics.cost_micros",
   "metrics.conversions", "metrics.conversions_value"}
MetricsRow ==
  {[f \in MetricsFields |->
      CASE f = "campaign.id" -> Str("1")
        [] f = "metrics.clicks" -> Num(3)
        [] f = "metrics.impressions" -> Num(10)
        [] f = "metrics.cost_micros" -> cost
        [] f = "metrics.conversions" -> conv
        [] f = "metrics.conversions_value" -> rev] :
     cost \in {U, Num(0), Num(1000000), Num(2000000)},
     conv \in {U, Num(0), Num(2)},
     rev \in {U, Num(0), Num(6000000)}}

\* Rows of the shopping queries: the same, with conversions fixed.
ProductRow == {r \in MetricsRow : r["metrics.conversions"] = Num(2)}

\* The rows a query can return, by the fields it selects.
RowsOf(q) ==
  CASE q.from = "campaign" /\ "metrics.conversions_value" \in q.select -> MetricsRow
    [] q.from \in {"shopping_performance_view", "ad_group_criterion"} -> ProductRow
    [] q.from = "campaign" /\ "metrics.cost_micros" \in q.select -> CampaignRow
    [] OTHER -> Row
Result == [resource_name : BudgetNames, id : {"7"}]
RECURSIVE SeqsUpTo(_, _)
SeqsUpTo(S, n) ==
  IF n = 0 THEN {<<>>}
  ELSE SeqsUpTo(S, n - 1) \cup
       {Append(q, x) : q \in {r \in SeqsUpTo(S, n - 1) : Len(r) = n - 1}, x \in S}
SeqsOfLen(S, n) == {q \in SeqsUpTo(S, n) : Len(q) = n}

NoResp == [rows |-> <<>>, results |-> <<>>]

\* The answers a request can get: up to MaxRows rows for a query, one
\* result per operation for a mutation.
Responses(r) ==
  IF r.kind = "query"
    THEN {[rows |-> rs, results |-> <<>>] : rs \in SeqsUpTo(RowsOf(r.query), MaxRows)}
    ELSE {[rows |-> <<>>, results |-> rs] : rs \in SeqsOfLen(Result, Len(r.operations))}

\* The values the external client can raise.
Raised == {Error(<<"quota exceeded">>), NonError}

\* How an awaited external call settled.
Started == [ok |-> TRUE, resp |-> NoResp, err |-> NonError]
Fulfilled(resp) == [ok |-> TRUE, resp |-> resp, err |-> NonError]
Rejected(e) == [ok |-> FALSE, resp |-> NoResp, err |-> e]

\* What a handler does next: await an external call, return, or throw.
NoVal == [success |-> FALSE]
Call(label, r) == [tag |-> "call", at |-> label, req |-> r, val |-> NoVal, err |-> NonError]
Return(v) == [tag |-> "return", at |-> "", req |-> QueryReq(NoQuery), val |-> v, err |-> NonError]
Throw(e) == [tag |-> "throw", at |-> "", req |-> QueryReq(NoQuery), val |-> NoVal, err |-> e]

\* try { body } catch (error) { throw new Error(`${prefix}: ${error.message}`) }
TryCatch(prefix, eff) ==
  IF eff.tag = "throw" THEN Throw(Error(<<prefix>> \o MessageOf(eff.err))) ELSE eff

----------------------------------------------------------------------------
\* tools/campaigns.ts

Defined(v) == v.k # "undefined"

\* `customers/${customer_id}/<collection>/${id}`
ResourceName(collection, id) ==
  Str("customers/" \o CustomerId \o "/" \o collection \o "/" \o id)

\* A WHERE clause that keeps the status filter whatever includeRemoved is.
listCampaignsWhereAlwaysStatus(params) ==
  <<Cond("campaign.status", "!=", Str("REMOVED"))>>
  \o
  (IF params.dateRange.s # "ALL_TIME"
     THEN <<Cond("segments.date", "DURING", params.dateRange)>>
     ELSE <<>>)

listCampaignsWhere(params) ==
  (IF ~Truthy(params.includeRemoved)
     THEN <<Cond("campaign.status", "!=", Str("REMOVED"))>> ELSE <<>>)
  \o
  (IF params.dateRange.s # "ALL_TIME"
     THEN IF params.dateRange.s = "CUSTOM" /\ Truthy(params.customDateRange)
            THEN <<Between("segments.date",
                           params.customDateRange.fields.startDate,
                           params.customDateRange.fields.endDate)>>
            ELSE <<Cond("segments.date", "DURING", params.dateRange)>>
     ELSE <<>>)

listCampaignsQuery(params) ==
  [from |-> "campaign",
   select |-> {"campaign.id", "campaign.name", "campaign.status",
               "campaign.advertising_channel_type", "campaign.start_date",
               "campaign.end_date", "campaign_budget.amount_micros",
               "metrics.impressions", "metrics.clicks", "metrics.cost_micros",
               "metrics.conversions", "metrics.ctr", "metrics.average_cpc",
               "metrics.conversion_rate", "metrics.cost_per_conversion"},
   where |-> listCampaignsWhere(params),
   orderBy |-> "campaign.id", dir |-> "",
   limit |-> params.limit]

\* parseInt of a micros value the API returned.
parseInt(v) == v.n

\* `value || 0`
OrZero(v) == IF Truthy(v) THEN v ELSE Num(0)

\* n / 1_000_000 in double arithmetic is the double nearest to the
\* quotient: a whole number, a count of hundredths or a count of millionths.
DivMillion(n) ==
  IF n % 10000 = 0
    THEN Decimal(n \div 10000)
    ELSE [k |-> "number", s |-> "e-6", n |-> n]

\* The object campaigns.map builds from one row.
listCampaignsRow(campaign, params) ==
  [id |-> campaign.id,
   budget |-> IF Truthy(campaign.amount_micros)
                THEN DivMillion(parseInt(campaign.amount_micros)) ELSE Null,
   dateRange |-> params.dateRange,
   metrics |->
     [cost |-> IF Truthy(campaign.cost_micros)
                 THEN DivMillion(parseInt(campaign.cost_micros)) ELSE Num(0),
      avgCpc |-> OrZero(campaign.average_cpc),
      conversionRate |-> OrZero(Get(campaign, "conversions_from_interactions_rate")),
      costPerConversion |-> OrZero(campaign.cost_per_conversion)]]

listCampaigns(params, at, st) ==
  CASE at = "start" -> Call("query", QueryReq(listCampaignsQuery(params)))
    [] at = "query" ->
         IF ~st.ok THEN Throw(st.err)
         ELSE Return([i \in 1..Len(st.resp.rows) |->
                        listCampaignsRow(st.resp.rows[i], params)])

\* The row fields the normalizer of listCampaigns reads.
listCampaignsReads ==
  {"campaign.id", "campaign.name", "campaign.status",
   "campaign.advertising_channel_type", "campaign.start_date", "campaign.end_date",
   "campaign_budget.amount_micros", "metrics.impressions", "metrics.clicks",
   "metrics.cost_micros", "metrics.conversions", "metrics.ctr", "metrics.average_cpc",
   "metrics.conversions_from_interactions_rate", "metrics.cost_per_conversion"}

getCampaignSchema == [campaignId |-> zString]

getCampaignQuery(params) ==
  [from |-> "campaign",
   select |-> {"campaign.id", "campaign.name", "campaign.status",
               "campaign.advertising_channel_type", "campaign.start_date",
               "campaign.end_date", "campaign.serving_status",
               "campaign.optimization_score", "campaign_budget.amount_micros",
               "campaign_budget.delivery_method", "metrics.impressions",
               "metrics.clicks", "metrics.cost_micros", "metrics.conversions",
               "metrics.ctr", "metrics.average_cpc", "metrics.conversion_rate"},
   where |-> <<Cond("campaign.id", "=", params.campaignId)>>,
   orderBy |-> "", dir |-> "", limit |-> U]

\* The row fields the return statement of getCampaign reads.
getCampaignReads ==
  {"campaign.id", "campaign.name", "campaign.status", "campaign.serving_status",
   "campaign.advertising_channel_type", "campaign.start_date", "campaign.end_date",
   "campaign.optimization_score", "campaign_budget.amount_micros",
   "campaign_budget.delivery_method", "metrics.impressions", "metrics.clicks",
   "metrics.cost_micros", "metrics.conversions", "metrics.ctr", "metrics.average_cpc",
   "metrics.conversions_from_interactions_rate"}

\* The object getCampaign returns for the first row.
getCampaignResult(campaign) ==
  [id |-> campaign.id,
   budget |-> [amount |-> IF Truthy(campaign.amount_micros)
                            THEN DivMillion(parseInt(campaign.amount_micros)) ELSE Null],
   metrics |->
     [cost |-> IF Truthy(campaign.cost_micros)
                 THEN DivMillion(parseInt(campaign.cost_micros)) ELSE Num(0),
      avgCpc |-> OrZero(campaign.average_cpc),
      conversionRate |-> OrZero(Get(campaign, "conversions_from_interactions_rate"))]]

getCampaign(params, at, st) ==
  CASE at = "start" -> Call("query", QueryReq(getCampaignQuery(params)))
    [] at = "query" ->
         IF ~st.ok THEN Throw(st.err)
         ELSE IF Len(st.resp.rows) = 0
           THEN Throw(Error(<<"Campaign with ID " \o params.campaignId.s \o " not found">>))
           ELSE Return(getCampaignResult(st.resp.rows[1]))

createCampaignBudgetOp(params) ==
  CreateOp([name |-> Str("Budget for " \o params.name.s),
            amount_micros |-> TimesMillion(params.budget),
            delivery_method |-> Str("STANDARD")])

\* A campaign create that names a budget it was not given.
createCampaignOpFixedBudget(params, budgetResource) ==
  CreateOp([name |-> params.name,
            status |-> params.status,
            advertising_channel_type |-> params.advertisingChannelType,
            campaign_budget |-> Str("customers/1234567890/campaignBudgets/7")])

createCampaignOp(params, budgetResource) ==
  CreateOp([name |-> params.name,
            status |-> params.status,
            advertising_channel_type |-> params.advertisingChannelType,
            campaign_budget |-> Str(budgetResource.resource_name)])

createCampaign(params, at, st) ==
  CASE at = "start" ->
         Call("budget", MutateOne("campaignBudgets", "create", createCampaignBudgetOp(params)))
    [] at = "budget" ->
         IF ~st.ok THEN Throw(st.err)
         ELSE Call("campaign", MutateOne("campaigns", "create",
                                         createCampaignOp(params, st.resp.results[1])))
    [] at = "campaign" ->
         IF ~st.ok THEN Throw(st.err)
         ELSE Return([id |-> st.resp.results[1].id,
                      resourceName |-> st.resp.results[1].resource_name,
                      name |-> params.name,
                      status |-> params.status,
                      budget |-> params.budget])

\* An `updates` that leaves the status out.
updateCampaignUpdatesNoStatus(params) == {f \in {"name"} : Defined(params[f])}

\* The keys of `updates` in updateCampaign.
updateCampaignUpdates(params) == {f \in {"name", "status"} : Defined(params[f])}

updateCampaignLookup(params) ==
  [from |-> "campaign", select |-> {"campaign_budget.resource_name"},
   where |-> <<Cond("campaign.id", "=", params.campaignId)>>,
   orderBy |-> "", dir |-> "", limit |-> U]

updateCampaignOp(params) ==
  UpdateOp([f \in {"resource_name"} \cup updateCampaignUpdates(params) |->
              IF f = "resource_name"
                THEN ResourceName("campaigns", params.campaignId.s)
                ELSE params[f]])

\* The tail of updateCampaign, after the budget block.
updateCampaignTail(params) ==
  IF updateCampaignUpdates(params) # {}
    THEN Call("campaign", MutateOne("campaigns", "update", updateCampaignOp(params)))
    ELSE Return([success |-> TRUE, campaignId |-> params.campaignId])

\* An updateCampaign that goes on to the campaign update when the budget
\* lookup or the budget update failed.
updateCampaignSwallowsFailure(params, at, st) ==
  CASE at = "start" ->
         IF Defined(params.budget)
           THEN Call("lookup", QueryReq(updateCampaignLookup(params)))
           ELSE updateCampaignTail(params)
    [] at = "lookup" ->
         IF st.ok /\ Len(st.resp.rows) > 0 /\ st.resp.rows[1].budget_rn # ""
           THEN Call("budget", MutateOne("campaignBudgets", "update",
                  UpdateOp([resource_name |-> Str(st.resp.rows[1].budget_rn),
                            amount_micros |-> TimesMillion(params.budget)])))
           ELSE updateCampaignTail(params)
    [] at = "budget" -> updateCampaignTail(params)
    [] at = "campaign" ->
         IF ~st.ok THEN Throw(st.err)
         ELSE Return([success |-> TRUE, campaignId |-> params.campaignId])

updateCampaign(params, at, st) ==
  CASE at = "start" ->
         IF Defined(params.budget)
           THEN Call("lookup", QueryReq(updateCampaignLookup(params)))
           ELSE updateCampaignTail(params)
    [] at = "lookup" ->
         IF ~st.ok THEN Throw(st.err)
         ELSE IF Len(st.resp.rows) > 0 /\ st.resp.rows[1].budget_rn # ""
           THEN Call("budget", MutateOne("campaignBudgets", "update",
                  UpdateOp([resource_name |-> Str(st.resp.rows[1].budget_rn),
                            amount_micros |-> TimesMillion(params.budget)])))
           ELSE updateCampaignTail(params)
    [] at = "budget" ->
         IF ~st.ok THEN Throw(st.err) ELSE updateCampaignTail(params)
    [] at = "campaign" ->
         IF ~st.ok THEN Throw(st.err)
         ELSE Return([success |-> TRUE, campaignId |-> params.campaignId])

----------------------------------------------------------------------------
\* tools/keywords.ts (the second part of src/src/tools/accounts.ts)

\* Operations built from the keyword list read back to front.
addKeywordsOpsReversed(params) ==
  [i \in 1..Len(params.keywords.items) |->
     CreateOp([ad_group |-> ResourceName("adGroups", params.adGroupId.s),
               status |-> Str("ENABLED"),
               keyword_text |-> params.keywords.items[Len(params.keywords.items) + 1 - i].text,
               keyword_match_type |->
                 params.keywords.items[Len(params.keywords.items) + 1 - i].matchType,
               cpc_bid_micros |->
                 params.keywords.items[Len(params.keywords.items) + 1 - i].cpcBidMicros])]

addKeywordsOps(params) ==
  [i \in 1..Len(params.keywords.items) |->
     CreateOp([ad_group |-> ResourceName("adGroups", params.adGroupId.s),
               status |-> Str("ENABLED"),
               keyword_text |-> params.keywords.items[i].text,
               keyword_match_type |-> params.keywords.items[i].matchType,
               cpc_bid_micros |-> params.keywords.items[i].cpcBidMicros])]

addKeywords(params, at, st) ==
  CASE at = "start" ->
         Call("create", MutateMany("adGroupCriteria", "create", addKeywordsOps(params)))
    [] at = "create" ->
         IF ~st.ok THEN Throw(st.err)
         ELSE Return([success |-> TRUE,
                      addedKeywords |-> Len(st.resp.results),
                      keywords |-> [i \in 1..Len(st.resp.results) |->
                                      [text |-> params.keywords.items[i].text,
                                       matchType |-> params.keywords.items[i].matchType]]])

\* A guard that tests the keyword list where it should test the ad group.
addNegativeKeywordsRejectsWrongField(params) ==
  ~Truthy(params.campaignId) /\ ~Truthy(params.keywords)

\* The guard at the head of addNegativeKeywords.
addNegativeKeywordsRejects(params) ==
  ~Truthy(params.campaignId) /\ ~Truthy(params.adGroupId)

\* Operations that are scoped to the campaign whenever a campaign id is given.
addNegativeKeywordsOpsCampaignFirst(params) ==
  IF ~Truthy(params.campaignId)
    THEN [i \in 1..Len(params.keywords.items) |->
            CreateOp([ad_group |-> ResourceName("adGroups", params.adGroupId.s),
                      status |-> Str("ENABLED"),
                      negative |-> Bool(TRUE),
                      keyword_text |-> params.keywords.items[i].text,
                      keyword_match_type |-> params.keywords.items[i].matchType])]
    ELSE [i \in 1..Len(params.keywords.items) |->
            CreateOp([campaign |-> ResourceName("campaigns", params.campaignId.s),
                      negative |-> Bool(TRUE),
                      keyword_text |-> params.keywords.items[i].text,
                      keyword_match_type |-> params.keywords.items[i].matchType])]

addNegativeKeywordsOps(params) ==
  IF Truthy(params.adGroupId)
    THEN [i \in 1..Len(params.keywords.items) |->
            CreateOp([ad_group |-> ResourceName("adGroups", params.adGroupId.s),
                      status |-> Str("ENABLED"),
                      negative |-> Bool(TRUE),
                      keyword_text |-> params.keywords.items[i].text,
                      keyword_match_type |-> params.keywords.items[i].matchType])]
    ELSE [i \in 1..Len(params.keywords.items) |->
            CreateOp([campaign |-> ResourceName("campaigns", params.campaignId.s),
                      negative |-> Bool(TRUE),
                      keyword_text |-> params.keywords.items[i].text,
                      keyword_match_type |-> params.keywords.items[i].matchType])]

addNegativeKeywords(params, at, st) ==
  CASE at = "start" ->
         IF addNegativeKeywordsRejects(params)
           THEN Throw(Error(<<"Either campaignId or adGroupId must be provided">>))
           ELSE IF Truthy(params.adGroupId)
             THEN Call("ad_group", MutateMany("adGroupCriteria", "create",
                                              addNegativeKeywordsOps(params)))
             ELSE Call("campaign", MutateMany("campaignCriteria", "create",
                                              addNegativeKeywordsOps(params)))
    [] at \in {"ad_group", "campaign"} ->
         IF ~st.ok THEN Throw(st.err)
         ELSE Return([success |-> TRUE, level |-> at,
                      addedKeywords |-> Len(st.resp.results)])

\* An `updates` that always carries the bid.
updateKeywordUpdatesAlwaysBid(params) ==
  {f \in {"status", "cpcBidMicros"} : Defined(params[f])} \cup {"cpcBidMicros"}

\* The keys of `updates` in updateKeyword, by the argument that sets each.
updateKeywordUpdates(params) ==
  {f \in {"status", "cpcBidMicros"} : Defined(params[f])}

updateKeywordOp(params) ==
  LET ups == updateKeywordUpdates(params)
      keys == {"resource_name"}
                \cup (IF "status" \in ups THEN {"status"} ELSE {})
                \cup (IF "cpcBidMicros" \in ups THEN {"cpc_bid_micros"} ELSE {})
  IN UpdateOp([key \in keys |->
        CASE key = "resource_name" ->
               ResourceName("adGroupCriteria", params.adGroupId.s \o "~" \o params.keywordId.s)
          [] key = "status" -> params.status
          [] key = "cpc_bid_micros" -> params.cpcBidMicros])

updateKeyword(params, at, st) ==
  CASE at = "start" ->
         Call("update", MutateOne("adGroupCriteria", "update", updateKeywordOp(params)))
    [] at = "update" ->
         IF ~st.ok THEN Throw(st.err)
         ELSE Return([success |-> TRUE, keywordId |-> params.keywordId])

----------------------------------------------------------------------------
\* tools/performance.ts

getSearchTermsReportDateClause(params) ==
  IF params.dateRange.s = "CUSTOM" /\ Truthy(params.customDateRange)
    THEN Between("segments.date",
                 params.customDateRange.fields.startDate,
                 params.customDateRange.fields.endDate)
    ELSE Cond("segments.date", "DURING", params.dateRange)

getSearchTermsReportQuery(params) ==
  [from |-> "search_term_view",
   select |-> {"search_term_view.search_term", "search_term_view.status",
               "campaign.id", "campaign.name", "ad_group.id", "ad_group.name",
               "metrics.impressions", "metrics.clicks", "metrics.cost_micros",
               "metrics.conversions", "metrics.ctr", "metrics.average_cpc",
               "metrics.conversion_rate"},
   where |-> <<getSearchTermsReportDateClause(params),
               Cond("metrics.impressions", ">=", params.minImpressions)>>
             \o (IF Truthy(params.campaignId)
                   THEN <<Cond("campaign.id", "=", params.campaignId)>> ELSE <<>>)
             \o (IF Truthy(params.adGroupId)
                   THEN <<Cond("ad_group.id", "=", params.adGroupId)>> ELSE <<>>),
   orderBy |-> "metrics.impressions", dir |-> "DESC",
   limit |-> params.limit]

getSearchTermsReport(params, at, st) ==
  CASE at = "start" -> Call("query", QueryReq(getSearchTermsReportQuery(params)))
    [] at = "query" ->
         IF ~st.ok THEN Throw(st.err)
         ELSE Return([i \in 1..Len(st.resp.rows) |-> [id |-> st.resp.rows[i].id]])

----------------------------------------------------------------------------
\* tools/ad-groups.ts

listAdGroupsQuery(args) ==
  [from |-> "ad_group",
   select |-> {"ad_group.id", "ad_group.name", "ad_group.status",
               "ad_group.campaign", "ad_group.cpc_bid_micros",
               "ad_group.cpm_bid_micros", "ad_group.target_cpa_micros",
               "ad_group.target_roas", "campaign.name", "metrics.impressions",
               "metrics.clicks", "metrics.cost_micros", "metrics.conversions",
               "metrics.conversions_value"},
   where |-> (IF Truthy(args.campaignId)
                THEN <<Cond("campaign.id", "=", args.campaignId)>> ELSE <<>>)
             \o (IF ~Truthy(args.includeRemoved)
                   THEN <<Cond("ad_group.status", "!=", Str("REMOVED"))>> ELSE <<>>),
   orderBy |-> "ad_group.id", dir |-> "DESC",
   limit |-> args.limit]

listAdGroups(args, at, st) ==
  TryCatch("Failed to list ad groups",
    CASE at = "start" -> Call("query", QueryReq(listAdGroupsQuery(args)))
      [] at = "query" ->
           IF ~st.ok THEN Throw(st.err)
           ELSE Return([i \in 1..Len(st.resp.rows) |-> [id |-> st.resp.rows[i].id]]))

createAdGroupOp(args) ==
  CreateOp([campaign |-> ResourceName("campaigns", args.campaignId.s),
            name |-> args.name,
            status |-> args.status,
            cpc_bid_micros |-> args.cpcBidMicros,
            cpm_bid_micros |-> args.cpmBidMicros,
            target_cpa_micros |-> args.targetCpaMicros,
            target_roas |-> args.targetRoas])

createAdGroup(args, at, st) ==
  TryCatch("Failed to create ad group",
    CASE at = "start" ->
           Call("mutate", MutateMany("adGroupService", "mutateAdGroups",
                                     <<createAdGroupOp(args)>>))
      [] at = "mutate" ->
           IF ~st.ok THEN Throw(st.err)
           ELSE Return([success |-> TRUE,
                        resourceName |-> st.resp.results[1].resource_name]))

\* The optional arguments of updateAdGroup in the order the handler tests
\* them, and the field each one sets.
updateAdGroupArgs ==
  <<"name", "status", "cpcBidMicros", "cpmBidMicros", "targetCpaMicros", "targetRoas">>
updateAdGroupFieldOf(a) ==
  CASE a = "name" -> "name"
    [] a = "status" -> "status"
    [] a = "cpcBidMicros" -> "cpc_bid_micros"
    [] a = "cpmBidMicros" -> "cpm_bid_micros"
    [] a = "targetCpaMicros" -> "target_cpa_micros"
    [] a = "targetRoas" -> "target_roas"

\* updateObject as built by updateAdGroup.
updateAdGroupObject(args) ==
  LET set == {i \in 1..Len(updateAdGroupArgs) : Defined(args[updateAdGroupArgs[i]])}
      keys == {"resource_name"} \cup {updateAdGroupFieldOf(updateAdGroupArgs[i]) : i \in set}
  IN [key \in keys |->
        IF key = "resource_name"
          THEN ResourceName("adGroups", args.adGroupId.s)
          ELSE args[CHOOSE a \in {updateAdGroupArgs[i] : i \in set} :
                      updateAdGroupFieldOf(a) = key]]

\* An updateMask that misses the push of target_roas.
updateAdGroupMaskNoRoas(args) ==
  LET pushed == SelectSeq(updateAdGroupArgs,
                          LAMBDA a : Defined(args[a]) /\ a # "targetRoas")
  IN [i \in 1..Len(pushed) |-> updateAdGroupFieldOf(pushed[i])]

\* updateMask as built by updateAdGroup.
updateAdGroupMask(args) ==
  LET pushed == SelectSeq(updateAdGroupArgs, LAMBDA a : Defined(args[a]))
  IN [i \in 1..Len(pushed) |-> updateAdGroupFieldOf(pushed[i])]

updateAdGroup(args, at, st) ==
  TryCatch("Failed to update ad group",
    CASE at = "start" ->
           Call("mutate", MutateMany("adGroupService", "mutateAdGroups",
                  <<UpdateMaskOp(updateAdGroupObject(args), updateAdGroupMask(args))>>))
      [] at = "mutate" ->
           IF ~st.ok THEN Throw(st.err)
           ELSE Return([success |-> TRUE,
                        resourceName |-> st.resp.results[1].resource_name]))

getAdGroupQuery(args) ==
  [from |-> "ad_group",
   select |-> {"ad_group.id", "ad_group.name", "ad_group.status",
               "ad_group.campaign", "ad_group.cpc_bid_micros",
               "ad_group.cpm_bid_micros", "ad_group.target_cpa_micros",
               "ad_group.target_roas", "ad_group.effective_target_cpa_micros",
               "ad_group.effective_target_roas", "campaign.name", "campaign.id"},
   where |-> <<Cond("ad_group.id", "=", args.adGroupId)>>,
   orderBy |-> "", dir |-> "", limit |-> U]

\* A getAdGroup that returns a null payload for no rows.
getAdGroupResultNull(response) ==
  IF Len(response) = 0
    THEN Return([id |-> "null"])
    ELSE Return([id |-> response[1].id])

\* What getAdGroup does with the rows of its query.
getAdGroupResult(response) ==
  IF Len(response) = 0
    THEN Throw(Error(<<"Ad group not found">>))
    ELSE Return([id |-> response[1].id])

getAdGroup(args, at, st) ==
  TryCatch("Failed to get ad group",
    CASE at = "start" -> Call("query", QueryReq(getAdGroupQuery(args)))
      [] at = "query" ->
           IF ~st.ok THEN Throw(st.err) ELSE getAdGroupResult(st.resp.rows))

----------------------------------------------------------------------------
\* tools/ads.ts (src/unnamed/part_002)

listAdsQuery(args) ==
  [from |-> "ad_group_ad",
   select |-> {"ad_group_ad.ad.id", "ad_group_ad.ad.name", "ad_group_ad.ad.type",
               "ad_group_ad.status", "ad_group_ad.ad_group", "ad_group.name",
               "campaign.id", "campaign.name",
               "ad_group_ad.ad.responsive_search_ad.headlines",
               "ad_group_ad.ad.responsive_search_ad.descriptions",
               "ad_group_ad.ad.responsive_search_ad.path1",
               "ad_group_ad.ad.responsive_search_ad.path2",
               "ad_group_ad.ad.final_urls", "metrics.impressions",
               "metrics.clicks", "metrics.cost_micros", "metrics.conversions",
               "metrics.ctr", "metrics.average_cpc"},
   where |-> (IF Truthy(args.adGroupId)
                THEN <<Cond("ad_group.id", "=", args.adGroupId)>> ELSE <<>>)
             \o (IF Truthy(args.campaignId)
                   THEN <<Cond("campaign.id", "=", args.campaignId)>> ELSE <<>>)
             \o (IF ~Truthy(args.includeRemoved)
                   THEN <<Cond("ad_group_ad.status", "!=", Str("REMOVED"))>> ELSE <<>>),
   orderBy |-> "ad_group_ad.ad.id", dir |-> "DESC",
   limit |-> args.limit]

listAds(args, at, st) ==
  TryCatch("Failed to list ads",
    CASE at = "start" -> Call("query", QueryReq(listAdsQuery(args)))
      [] at = "query" ->
           IF ~st.ok THEN Throw(st.err)
           ELSE Return([i \in 1..Len(st.resp.rows) |-> [id |-> st.resp.rows[i].id]]))

----------------------------------------------------------------------------
\* Keyword analytics (the second part of src/src/tools/ad-groups.ts).

\* microsToNumber: undefined stays undefined, anything else is divided.
microsToNumber(micros) ==
  IF micros.k = "undefined" THEN U ELSE DivMillion(micros.n)

KeywordMetrics ==
  {"COST", "CLICKS", "CONVERSIONS", "CTR", "CONVERSION_RATE", "CPC", "QUALITY_SCORE"}

getTopBottomKeywordsSchema ==
  [metric |-> zEnum(KeywordMetrics),
   dateRange |-> zDefault(zEnum({"TODAY", "YESTERDAY", "LAST_7_DAYS", "LAST_30_DAYS",
                                 "THIS_MONTH", "LAST_MONTH"}), Str("LAST_30_DAYS")),
   topCount |-> zDefault(zNumber, Num(20)),
   bottomCount |-> zDefault(zNumber, Num(20)),
   campaignId |-> zOptional(zString),
   adGroupId |-> zOptional(zString),
   includeNegative |-> zDefault(zBoolean, Bool(FALSE))]

\* The switch on args.metric: the field the queries are ordered by.
orderByField(metric) ==
  CASE metric = "CLICKS" -> "metrics.clicks"
    [] metric = "CONVERSIONS" -> "metrics.conversions"
    [] metric = "CTR" -> "metrics.ctr"
    [] metric = "CONVERSION_RATE" -> "metrics.conversion_rate"
    [] metric = "CPC" -> "metrics.average_cpc"
    [] metric = "QUALITY_SCORE" -> "ad_group_criterion.quality_info.quality_score"
    [] OTHER -> "metrics.cost_micros"

\* baseQuery: the SELECT list, the conditions joined by AND, and the date
\* clause ` DURING <range>`, which the handler appends without a field.
getTopBottomKeywordsBase(args) ==
  [from |-> "keyword_view",
   select |-> {"ad_group_criterion.keyword.text", "ad_group_criterion.keyword.match_type",
               "ad_group_criterion.status", "ad_group_criterion.negative",
               "ad_group_criterion.quality_info.quality_score", "ad_group.name",
               "campaign.name", "metrics.clicks", "metrics.impressions",
               "metrics.cost_micros", "metrics.conversions", "metrics.conversions_value",
               "metrics.ctr", "metrics.average_cpc", "metrics.conversion_rate",
               "metrics.cost_per_conversion"},
   where |-> (IF Truthy(args.campaignId)
                THEN <<Cond("campaign.id", "=", args.campaignId)>> ELSE <<>>)
             \o (IF Truthy(args.adGroupId)
                   THEN <<Cond("ad_group.id", "=", args.adGroupId)>> ELSE <<>>)
             \o (IF ~Truthy(args.includeNegative)
                   THEN <<Cond("ad_group_criterion.negative", "=", Bool(FALSE))>> ELSE <<>>)
             \o <<Cond("ad_group_criterion.status", "!=", Str("REMOVED"))>>
             \o <<Cond("", "DURING", args.dateRange)>>,
   orderBy |-> "", dir |-> "", limit |-> U]

getTopBottomKeywordsTopQuery(args) ==
  [getTopBottomKeywordsBase(args) EXCEPT
     !.orderBy = orderByField(args.metric.s), !.dir = "DESC", !.limit = args.topCount]

\* A bottom condition that excludes the zero rows for every metric.
bottomConditionAlways(args) ==
  <<Cond(orderByField(args.metric.s), ">", Num(0))>>

\* bottomCondition: ` AND <field> > 0`, or nothing for QUALITY_SCORE.
bottomCondition(args) ==
  IF args.metric.s = "QUALITY_SCORE"
    THEN <<>>
    ELSE <<Cond(orderByField(args.metric.s), ">", Num(0))>>

getTopBottomKeywordsBottomQuery(args) ==
  [getTopBottomKeywordsBase(args) EXCEPT
     !.where = @ \o bottomCondition(args),
     !.orderBy = orderByField(args.metric.s), !.dir = "ASC", !.limit = args.bottomCount]

formatKeyword(row) ==
  [keyword |-> row["ad_group_criterion.keyword.text"],
   qualityScore |-> row["ad_group_criterion.quality_info.quality_score"],
   metrics |->
     [clicks |-> OrZero(row["metrics.clicks"]),
      cost |-> OrZero(microsToNumber(row["metrics.cost_micros"])),
      conversions |-> OrZero(row["metrics.conversions"]),
      ctr |-> OrZero(row["metrics.ctr"]),
      averageCpc |-> OrZero(microsToNumber(row["metrics.average_cpc"])),
      conversionRate |-> OrZero(row["metrics.conversion_rate"])]]

\* topResponse is the local the handler keeps across its second await.
getTopBottomKeywords(args, at, st, topResponse) ==
  TryCatch("Failed to get top/bottom keywords",
    CASE at = "start" -> Call("top", QueryReq(getTopBottomKeywordsTopQuery(args)))
      [] at = "top" ->
           IF ~st.ok THEN Throw(st.err)
           ELSE Call("bottom", QueryReq(getTopBottomKeywordsBottomQuery(args)))
      [] at = "bottom" ->
           IF ~st.ok THEN Throw(st.err)
           ELSE Return([metric |-> args.metric,
                        dateRange |-> args.dateRange,
                        topPerformers |->
                          [i \in 1..Len(topResponse) |-> formatKeyword(topResponse[i])],
                        bottomPerformers |->
                          [i \in 1..Len(st.resp.rows) |-> formatKeyword(st.resp.rows[i])]]))

----------------------------------------------------------------------------
\* Campaign comparison (the second part of src/src/tools/ad-groups.ts).

\* Arithmetic on the numbers the normalizers produce.  A number is a whole
\* number, a count of hundredths, a count of millionths, or a fraction n / q
\* in lowest terms, written with the tag "/q".
Micros(v) ==
  CASE v.s = "" -> v.n * 1000000
    [] v.s = "e-2" -> v.n * 10000
    [] v.s = "e-6" -> v.n

RECURSIVE GCD(_, _)
GCD(a, b) == IF b = 0 THEN a ELSE GCD(b, a % b)

Infinity == [k |-> "number", s |-> "Infinity", n |-> 0]
NaN == [k |-> "number", s |-> "NaN", n |-> 0]

\* p / q for integers p >= 0 and q >= 0; x / 0 is Infinity and 0 / 0 is NaN.
Ratio(p, q) ==
  IF q = 0 THEN (IF p = 0 THEN NaN ELSE Infinity)
  ELSE LET g == GCD(p, q)
           n == p \div g
           d == q \div g
       IN IF 1000000 % d = 0
            THEN DivMillion(n * (1000000 \div d))
            ELSE [k |-> "number", s |-> "/" \o ToString(d), n |-> n]

\* a + b, a / b and (a / b) * 100 on whole numbers and decimals
Plus(a, b) == DivMillion(Micros(a) + Micros(b))
Divide(a, b) == Ratio(Micros(a), Micros(b))
Percent(a, b) == Ratio(Micros(a), Micros(b) \div 100)

getCampaignComparisonSchema ==
  [dateRange |-> zDefault(zEnum({"TODAY", "YESTERDAY", "LAST_7_DAYS", "LAST_30_DAYS",
                                 "THIS_MONTH", "LAST_MONTH"}), Str("LAST_30_DAYS")),
   metric |-> zDefault(zEnum({"COST", "CLICKS", "CONVERSIONS", "ROAS", "CPA"}),
                       Str("CONVERSIONS")),
   includeRemoved |-> zDefault(zBoolean, Bool(FALSE))]

\* String.prototype.toLowerCase on the metric names of the schemas.
toLowerCase(s) ==
  CASE s = "COST" -> "cost"
    [] s = "CLICKS" -> "clicks"
    [] s = "CONVERSIONS" -> "conversions"
    [] s = "ROAS" -> "roas"
    [] s = "CPA" -> "cpa"
    [] s = "REVENUE" -> "revenue"
    [] s = "CTR" -> "ctr"
    [] s = "CONVERSION_RATE" -> "conversion_rate"

\* ORDER BY metrics.${...}: conversions_value for ROAS, cost_per_conversion
\* for CPA, the lower-cased metric name otherwise.
getCampaignComparisonOrderBy(args) ==
  "metrics." \o (IF args.metric.s = "ROAS" THEN "conversions_value"
                 ELSE IF args.metric.s = "CPA" THEN "cost_per_conversion"
                 ELSE toLowerCase(args.metric.s))

getCampaignComparisonQuery(args) ==
  [from |-> "campaign",
   select |-> {"campaign.id", "campaign.name", "campaign.status",
               "campaign.advertising_channel_type", "campaign.bidding_strategy_type",
               "campaign_budget.amount_micros", "metrics.clicks", "metrics.impressions",
               "metrics.cost_micros", "metrics.conversions", "metrics.conversions_value",
               "metrics.ctr", "metrics.conversion_rate", "metrics.cost_per_conversion",
               "metrics.search_impression_share",
               "metrics.search_rank_lost_impression_share",
               "metrics.search_budget_lost_impression_share"},
   where |-> (IF ~Truthy(args.includeRemoved)
                THEN <<Lit("WHERE", Cond("campaign.status", "!=", Str("REMOVED")))>>
                ELSE <<>>)
             \o <<Cond("", "DURING", args.dateRange)>>,
   orderBy |-> getCampaignComparisonOrderBy(args), dir |-> "DESC", limit |-> U]

\* The object response.map builds from one row.
getCampaignComparisonRow(row) ==
  LET cost == OrZero(microsToNumber(Get(row, "metrics.cost_micros")))
      revenue == OrZero(microsToNumber(Get(row, "metrics.conversions_value")))
      conversions == OrZero(Get(row, "metrics.conversions"))
  IN [id |-> Get(row, "campaign.id"),
      dailyBudget |-> OrZero(microsToNumber(Get(row, "campaign_budget.amount_micros"))),
      metrics |->
        [clicks |-> OrZero(Get(row, "metrics.clicks")),
         impressions |-> OrZero(Get(row, "metrics.impressions")),
         cost |-> cost,
         conversions |-> conversions,
         revenue |-> revenue,
         ctr |-> OrZero(Get(row, "metrics.ctr")),
         conversionRate |-> OrZero(Get(row, "metrics.conversion_rate")),
         cpa |-> IF Micros(conversions) > 0 THEN Divide(cost, conversions) ELSE Num(0),
         roas |-> IF Micros(cost) > 0 THEN Divide(revenue, cost) ELSE Num(0)]]

\* campaigns.reduce: the five sums, folded from the left over the campaigns.
RECURSIVE getCampaignComparisonSums(_, _)
getCampaignComparisonSums(campaigns, n) ==
  IF n = 0
    THEN [clicks |-> Num(0), impressions |-> Num(0), cost |-> Num(0),
          conversions |-> Num(0), revenue |-> Num(0)]
    ELSE LET acc == getCampaignComparisonSums(campaigns, n - 1)
             campaign == campaigns[n]
         IN [clicks |-> Plus(acc.clicks, campaign.metrics.clicks),
             impressions |-> Plus(acc.impressions, campaign.metrics.impressions),
             cost |-> Plus(acc.cost, campaign.metrics.cost),
             conversions |-> Plus(acc.conversions, campaign.metrics.conversions),
             revenue |-> Plus(acc.revenue, campaign.metrics.revenue)]

\* Totals whose roas is the average of the campaigns' roas values.
getCampaignComparisonTotalsAveraged(campaigns) ==
  LET totals == getCampaignComparisonSums(campaigns, Len(campaigns))
      roasSum[n \in 0..Len(campaigns)] ==
        IF n = 0 THEN 0 ELSE roasSum[n - 1] + Micros(campaigns[n].metrics.roas)
  IN [clicks |-> totals.clicks,
      impressions |-> totals.impressions,
      cost |-> totals.cost,
      conversions |-> totals.conversions,
      revenue |-> totals.revenue,
      ctr |-> Num(0),
      conversionRate |-> Num(0),
      cpa |-> IF Micros(totals.conversions) > 0
                THEN Divide(totals.cost, totals.conversions) ELSE Num(0),
      roas |-> IF Len(campaigns) > 0
                 THEN Ratio(roasSum[Len(campaigns)], Len(campaigns) * 1000000)
                 ELSE Num(0)]

\* totals: the sums and the four ratios recomputed from them.
getCampaignComparisonTotals(campaigns) ==
  LET totals == getCampaignComparisonSums(campaigns, Len(campaigns))
  IN [clicks |-> totals.clicks,
      impressions |-> totals.impressions,
      cost |-> totals.cost,
      conversions |-> totals.conversions,
      revenue |-> totals.revenue,
      ctr |-> IF Micros(totals.impressions) > 0
                THEN Percent(totals.clicks, totals.impressions) ELSE Num(0),
      conversionRate |-> IF Micros(totals.clicks) > 0
                           THEN Percent(totals.conversions, totals.clicks) ELSE Num(0),
      cpa |-> IF Micros(totals.conversions) > 0
                THEN Divide(totals.cost, totals.conversions) ELSE Num(0),
      roas |-> IF Micros(totals.cost) > 0
                 THEN Divide(totals.revenue, totals.cost) ELSE Num(0)]

getCampaignComparison(args, at, st) ==
  TryCatch("Failed to get campaign comparison",
    CASE at = "start" -> Call("query", QueryReq(getCampaignComparisonQuery(args)))
      [] at = "query" ->
           IF ~st.ok THEN Throw(st.err)
           ELSE LET campaigns == [i \in 1..Len(st.resp.rows) |->
                                    getCampaignComparisonRow(st.resp.rows[i])]
                IN Return([dateRange |-> args.dateRange,
                           sortedBy |-> args.metric,
                           totals |-> getCampaignComparisonTotals(campaigns),
                           campaigns |-> campaigns]))

----------------------------------------------------------------------------
\* tools/ads.ts (src/unnamed/part_002): updateAd

updateAdSchema ==
  [adId |-> zString,
   adGroupId |-> zString,
   status |-> zOptional(zEnum({"ENABLED", "PAUSED", "REMOVED"}))]

\* adOperation: status is copied whether it is supplied or not, and the
\* mask is the literal ['status'].
updateAdOp(args) ==
  UpdateMaskOp([resource_name |-> Str("customers/" \o CustomerId \o "/adGroupAds/"
                                        \o args.adGroupId.s \o "~" \o args.adId.s),
                status |-> args.status],
               <<"status">>)

updateAd(args, at, st) ==
  TryCatch("Failed to update ad",
    CASE at = "start" ->
           Call("mutate", MutateMany("adGroupAdService", "mutateAdGroupAds",
                                     <<updateAdOp(args)>>))
      [] at = "mutate" ->
           IF ~st.ok THEN Throw(st.err)
           ELSE Return([success |-> TRUE,
                        resourceName |-> st.resp.results[1].resource_name]))

----------------------------------------------------------------------------
\* tools/conversions.ts: updateConversionAction

valueSettingsShape ==
  [defaultValue |-> zOptional(zNumber),
   defaultCurrencyCode |-> zOptional(zString),
   alwaysUseDefaultValue |-> zOptional(zBoolean)]

updateConversionActionSchema ==
  [conversionActionId |-> zString,
   name |-> zOptional(zString),
   status |-> zOptional(zEnum({"ENABLED", "REMOVED", "HIDDEN"})),
   valueSettings |-> zOptional(zObject(valueSettingsShape)),
   countingType |-> zOptional(zEnum({"ONE_PER_CLICK", "MANY_PER_CLICK"})),
   attributionModel |->
     zOptional(zEnum({"EXTERNAL", "GOOGLE_ADS_LAST_CLICK",
                      "GOOGLE_SEARCH_ATTRIBUTION_FIRST_CLICK",
                      "GOOGLE_SEARCH_ATTRIBUTION_LINEAR",
                      "GOOGLE_SEARCH_ATTRIBUTION_TIME_DECAY",
                      "GOOGLE_SEARCH_ATTRIBUTION_POSITION_BASED",
                      "GOOGLE_SEARCH_ATTRIBUTION_DATA_DRIVEN"})),
   clickThroughLookbackWindowDays |-> zOptional(zNumber),
   viewThroughLookbackWindowDays |-> zOptional(zNumber)]

\* The scalar arguments in the order of the if blocks, with the field of
\* each.
updateConversionActionArgs ==
  <<"name", "status", "countingType", "attributionModel",
    "clickThroughLookbackWindowDays", "viewThroughLookbackWindowDays">>
updateConversionActionFieldOf(a) ==
  CASE a = "name" -> "name"
    [] a = "status" -> "status"
    [] a = "countingType" -> "counting_type"
    [] a = "attributionModel" -> "attribution_model"
    [] a = "clickThroughLookbackWindowDays" -> "click_through_lookback_window_days"
    [] a = "viewThroughLookbackWindowDays" -> "view_through_lookback_window_days"

\* updateObject: the scalar fields that are not undefined, and the three
\* value settings when valueSettings is not undefined.
updateConversionActionObject(args) ==
  LET set == {i \in 1..Len(updateConversionActionArgs) :
                Defined(args[updateConversionActionArgs[i]])}
      keys == {"resource_name"}
                \cup {updateConversionActionFieldOf(updateConversionActionArgs[i]) : i \in set}
                \cup (IF Defined(args.valueSettings) THEN {"value_settings"} ELSE {})
  IN [key \in keys |->
        CASE key = "resource_name" ->
               ResourceName("conversionActions", args.conversionActionId.s)
          [] key = "value_settings" ->
               Obj([default_value |-> args.valueSettings.fields.defaultValue,
                    default_currency_code |-> args.valueSettings.fields.defaultCurrencyCode,
                    always_use_default_value |->
                      args.valueSettings.fields.alwaysUseDefaultValue])
          [] OTHER ->
               args[CHOOSE a \in {updateConversionActionArgs[i] : i \in set} :
                      updateConversionActionFieldOf(a) = key]]

\* updateMask: one push per scalar field that is not undefined, and one
\* push of all three value-settings paths when valueSettings is not
\* undefined.
updateConversionActionMask(args) ==
  LET pushed == SelectSeq(updateConversionActionArgs, LAMBDA a : Defined(args[a]))
  IN [i \in 1..Len(pushed) |-> updateConversionActionFieldOf(pushed[i])]
     \o (IF Defined(args.valueSettings)
           THEN <<"value_settings.default_value", "value_settings.default_currency_code",
                  "value_settings.always_use_default_value">>
           ELSE <<>>)

updateConversionAction(args, at, st) ==
  TryCatch("Failed to update conversion action",
    CASE at = "start" ->
           Call("mutate",
                MutateMany("conversionActionService", "mutateConversionActions",
                           <<UpdateMaskOp(updateConversionActionObject(args),
                                          updateConversionActionMask(args))>>))
      [] at = "mutate" ->
           IF ~st.ok THEN Throw(st.err)
           ELSE Return([success |-> TRUE,
                        resourceName |-> st.resp.results[1].resource_name]))

----------------------------------------------------------------------------
\* tools/shopping.ts

ShoppingDateRanges ==
  {"TODAY", "YESTERDAY", "LAST_7_DAYS", "LAST_30_DAYS", "THIS_MONTH", "LAST_MONTH",
   "ALL_TIME"}

getProductPerformanceSchema ==
  [campaignId |-> zOptional(zString),
   dateRange |-> zDefault(zEnum(ShoppingDateRanges), Str("LAST_30_DAYS")),
   limit |-> zDefault(zNumber, Num(100)),
   orderBy |-> zDefault(zEnum({"COST", "CLICKS", "CONVERSIONS", "REVENUE", "ROAS"}),
                        Str("COST")),
   orderDirection |-> zDefault(zEnum({"ASC", "DESC"}), Str("DESC"))]

getProductPartitionPerformanceSchema ==
  [adGroupId |-> zString,
   dateRange |-> zDefault(zEnum(ShoppingDateRanges), Str("LAST_30_DAYS"))]

ProductMetrics ==
  {"COST", "CLICKS", "CONVERSIONS", "REVENUE", "ROAS", "CTR", "CONVERSION_RATE"}

getTopBottomProductsSchema ==
  [metric |-> zEnum(ProductMetrics),
   dateRange |-> zDefault(zEnum(ShoppingDateRanges \ {"ALL_TIME"}), Str("LAST_30_DAYS")),
   topCount |-> zDefault(zNumber, Num(10)),
   bottomCount |-> zDefault(zNumber, Num(10)),
   campaignId |-> zOptional(zString)]

\* dateRangeClause: nothing for ALL_TIME, else ` DURING <range>`, appended
\* with no keyword and no field.
shoppingDateClause(args) ==
  IF args.dateRange.s = "ALL_TIME" THEN <<>> ELSE <<Cond("", "DURING", args.dateRange)>>

\* A roas that tests the revenue only.
shoppingRoasUnguarded(row) ==
  IF Truthy(Get(row, "metrics.conversions_value"))
    THEN Ratio(Get(row, "metrics.conversions_value").n,
               OrZero(Get(row, "metrics.cost_micros")).n)
    ELSE Num(0)

\* The roas of a row: conversions_value / cost_micros when both are truthy,
\* otherwise 0.
shoppingRoas(row) ==
  IF Truthy(Get(row, "metrics.conversions_value")) /\ Truthy(Get(row, "metrics.cost_micros"))
    THEN Ratio(Get(row, "metrics.conversions_value").n, Get(row, "metrics.cost_micros").n)
    ELSE Num(0)

\* The metrics every shopping normalizer builds from a row.
shoppingMetrics(row) ==
  [clicks |-> OrZero(Get(row, "metrics.clicks")),
   impressions |-> OrZero(Get(row, "metrics.impressions")),
   cost |-> OrZero(microsToNumber(Get(row, "metrics.cost_micros"))),
   conversions |-> OrZero(Get(row, "metrics.conversions")),
   revenue |-> OrZero(microsToNumber(Get(row, "metrics.conversions_value"))),
   ctr |-> OrZero(Get(row, "metrics.ctr")),
   conversionRate |-> OrZero(Get(row, "metrics.conversion_rate")),
   roas |-> shoppingRoas(row)]

\* The switch on args.orderBy of getProductPerformance.
getProductPerformanceOrderBy(orderBy) ==
  CASE orderBy = "CLICKS" -> "metrics.clicks"
    [] orderBy = "CONVERSIONS" -> "metrics.conversions"
    [] orderBy = "REVENUE" -> "metrics.conversions_value"
    [] orderBy = "ROAS" -> "metrics.conversions_value / metrics.cost_micros"
    [] OTHER -> "metrics.cost_micros"

getProductPerformanceQuery(args) ==
  [from |-> "shopping_performance_view",
   select |-> {"shopping_performance_view.resource_name", "segments.product_item_id",
               "segments.product_title", "segments.product_type_l1",
               "segments.product_type_l2", "segments.product_type_l3",
               "segments.product_brand", "segments.product_custom_attribute0",
               "segments.product_custom_attribute1", "campaign.id", "campaign.name",
               "metrics.clicks", "metrics.impressions", "metrics.cost_micros",
               "metrics.conversions", "metrics.conversions_value", "metrics.ctr",
               "metrics.average_cpc", "metrics.conversion_rate",
               "metrics.cost_per_conversion", "metrics.value_per_conversion"},
   where |-> (IF Truthy(args.campaignId)
                THEN <<Cond("campaign.id", "=", args.campaignId)>> ELSE <<>>)
             \o shoppingDateClause(args),
   orderBy |-> getProductPerformanceOrderBy(args.orderBy.s),
   dir |-> args.orderDirection.s,
   limit |-> args.limit]

getProductPerformance(args, at, st) ==
  TryCatch("Failed to get product performance",
    CASE at = "start" -> Call("query", QueryReq(getProductPerformanceQuery(args)))
      [] at = "query" ->
           IF ~st.ok THEN Throw(st.err)
           ELSE Return([i \in 1..Len(st.resp.rows) |->
                          [productItemId |-> Get(st.resp.rows[i], "segments.product_item_id"),
                           campaignId |-> Get(st.resp.rows[i], "campaign.id"),
                           metrics |-> shoppingMetrics(st.resp.rows[i])]]))

getProductPartitionPerformanceQuery(args) ==
  [from |-> "ad_group_criterion",
   select |-> {"ad_group_criterion.resource_name", "ad_group_criterion.criterion_id",
               "ad_group_criterion.status", "ad_group_criterion.listing_group.type",
               "ad_group_criterion.listing_group.case_value.product_brand.value",
               "ad_group_criterion.listing_group.case_value.product_item_id.value",
               "ad_group_criterion.listing_group.case_value.product_type.value",
               "ad_group_criterion.listing_group.case_value.product_type.level",
               "ad_group_criterion.cpc_bid_micros", "metrics.clicks",
               "metrics.impressions", "metrics.cost_micros", "metrics.conversions",
               "metrics.conversions_value", "metrics.ctr", "metrics.average_cpc",
               "metrics.conversion_rate"},
   where |-> <<Lit("WHERE", Cond("ad_group.id", "=", args.adGroupId)),
               Lit("AND", Cond("ad_group_criterion.type", "=", Str("LISTING_GROUP")))>>
             \o shoppingDateClause(args),
   orderBy |-> "metrics.cost_micros", dir |-> "DESC", limit |-> U]

getProductPartitionPerformance(args, at, st) ==
  TryCatch("Failed to get product partition performance",
    CASE at = "start" -> Call("query", QueryReq(getProductPartitionPerformanceQuery(args)))
      [] at = "query" ->
           IF ~st.ok THEN Throw(st.err)
           ELSE Return([i \in 1..Len(st.resp.rows) |->
                          [criterionId |->
                             Get(st.resp.rows[i], "ad_group_criterion.criterion_id"),
                           metrics |-> shoppingMetrics(st.resp.rows[i])]]))

\* The switch on args.metric of getTopBottomProducts: orderByField and
\* selectField.
productOrderByField(metric) ==
  CASE metric = "CLICKS" -> "metrics.clicks"
    [] metric = "CONVERSIONS" -> "metrics.conversions"
    [] metric = "REVENUE" -> "metrics.conversions_value"
    [] metric = "ROAS" -> "metrics.conversions_value / NULLIF(metrics.cost_micros, 0)"
    [] metric = "CTR" -> "metrics.ctr"
    [] metric = "CONVERSION_RATE" -> "metrics.conversion_rate"
    [] OTHER -> "metrics.cost_micros"
productSelectField(metric) ==
  CASE metric = "CLICKS" -> "clicks"
    [] metric = "CONVERSIONS" -> "conversions"
    [] metric = "REVENUE" -> "revenue"
    [] metric = "ROAS" -> "roas"
    [] metric = "CTR" -> "ctr"
    [] metric = "CONVERSION_RATE" -> "conversionRate"
    [] OTHER -> "cost"

\* baseQuery: ` WHERE campaign.id = <id>` when campaignId is truthy, then
\* the date clause.
getTopBottomProductsBase(args) ==
  [from |-> "shopping_performance_view",
   select |-> {"segments.product_item_id", "segments.product_title",
               "segments.product_brand", "campaign.name", "metrics.clicks",
               "metrics.impressions", "metrics.cost_micros", "metrics.conversions",
               "metrics.conversions_value", "metrics.ctr", "metrics.conversion_rate"},
   where |-> (IF Truthy(args.campaignId)
                THEN <<Lit("WHERE", Cond("campaign.id", "=", args.campaignId))>>
                ELSE <<>>)
             \o <<Cond("", "DURING", args.dateRange)>>,
   orderBy |-> "", dir |-> "", limit |-> U]

getTopBottomProductsTopQuery(args) ==
  [getTopBottomProductsBase(args) EXCEPT
     !.orderBy = productOrderByField(args.metric.s), !.dir = "DESC",
     !.limit = args.topCount]

\* bottomQuery: baseQuery + ` AND <field> > 0 ORDER BY ...`
getTopBottomProductsBottomQuery(args) ==
  [getTopBottomProductsBase(args) EXCEPT
     !.where = @ \o <<Lit("AND", Cond(productOrderByField(args.metric.s), ">", Num(0)))>>,
     !.orderBy = productOrderByField(args.metric.s), !.dir = "ASC",
     !.limit = args.bottomCount]

\* formatProduct: the metrics, and under the key selectField the value of
\* the ranking metric.
formatProduct(row, args) ==
  LET direct == Get(row, "metrics." \o toLowerCase(args.metric.s))
      computed ==
        IF args.metric.s = "REVENUE"
          THEN microsToNumber(Get(row, "metrics.conversions_value"))
        ELSE IF args.metric.s = "COST"
          THEN microsToNumber(Get(row, "metrics.cost_micros"))
        ELSE IF args.metric.s = "ROAS" THEN shoppingRoas(row)
        ELSE Num(0)
      base == [productItemId |-> Get(row, "segments.product_item_id"),
               metrics |-> shoppingMetrics(row)]
  IN [key \in DOMAIN base \cup {productSelectField(args.metric.s)} |->
        IF key = productSelectField(args.metric.s)
          THEN (IF Truthy(direct) THEN direct ELSE computed)
          ELSE base[key]]

\* topResponse is the local the handler keeps across its second await.
getTopBottomProducts(args, at, st, topResponse) ==
  TryCatch("Failed to get top/bottom products",
    CASE at = "start" -> Call("top", QueryReq(getTopBottomProductsTopQuery(args)))
      [] at = "top" ->
           IF ~st.ok THEN Throw(st.err)
           ELSE Call("bottom", QueryReq(getTopBottomProductsBottomQuery(args)))
      [] at = "bottom" ->
           IF ~st.ok THEN Throw(st.err)
           ELSE Return([metric |-> args.metric,
                        dateRange |-> args.dateRange,
                        topPerformers |->
                          [i \in 1..Len(topResponse) |-> formatProduct(topResponse[i], args)],
                        bottomPerformers |->
                          [i \in 1..Len(st.resp.rows) |->
                             formatProduct(st.resp.rows[i], args)]]))

----------------------------------------------------------------------------
\* index.ts (src/unnamed/part_001): the call-tool request handler.

\* The handler each case of the switch awaits.
HandlerOf(name, params, at, st) ==
  CASE name = "list_campaigns" -> listCampaigns(params, at, st)
    [] name = "create_campaign" -> createCampaign(params, at, st)
    [] name = "update_campaign" -> updateCampaign(params, at, st)
    [] name = "add_keywords" -> addKeywords(params, at, st)
    [] name = "add_negative_keywords" -> addNegativeKeywords(params, at, st)
    [] name = "update_keyword" -> updateKeyword(params, at, st)
    [] name = "get_search_terms_report" -> getSearchTermsReport(params, at, st)
    [] name = "list_ad_groups" -> listAdGroups(params, at, st)
    [] name = "create_ad_group" -> createAdGroup(params, at, st)
    [] name = "update_ad_group" -> updateAdGroup(params, at, st)
    [] name = "get_ad_group" -> getAdGroup(params, at, st)
    [] name = "list_ads" -> listAds(params, at, st)

\* The switch routes a name to a case, or to the default branch.
Routed(name) == name \in SwitchCases

\* JSON.stringify(value, null, 2) as the text of the content block.
JSONstringify(v) == [json |-> v]

\* return { content: [{ type: 'text', text: JSON.stringify(...) }] }
SuccessEnvelope(v) ==
  [kind |-> "success",
   content |-> <<[type |-> "text", text |-> JSONstringify(v)]>>,
   error |-> NonError]

\* A catch block without the instanceof McpError test.
CatchRewrapsAll(error) ==
  McpError("InternalError",
           <<"Tool execution failed">>
             \o (IF error.isError THEN error.msg ELSE <<"Unknown error occurred">>))

\* A catch block that rethrows what it caught.
CatchRethrows(error) == error

\* The catch block of the call-tool handler: a protocol error passes, any
\* other error is rewrapped as InternalError.
Catch(error) ==
  IF error.isMcp THEN error
  ELSE McpError("InternalError",
                <<"Tool execution failed">>
                  \o (IF error.isError THEN error.msg ELSE <<"Unknown error occurred">>))

ErrorEnvelope(e) == [kind |-> "error", content |-> <<>>, error |-> e]
NoOutcome == [kind |-> "none", content |-> <<>>, error |-> NonError]

----------------------------------------------------------------------------
\* The argument bags the model calls the tools with.

StrVals == {U, Str("42"), Str(""), Num(7)}
IdVals == {U, Str("42"), Str("")}
NumVals == {U, Num(0), Num(5), Str("5")}
\* Bids in micros a caller may send: whole, negative, fractional (2.5).
MicrosVals == NumVals \cup {Num(-5), Decimal(250)}
BoolVals == {U, Bool(TRUE), Bool(FALSE)}
EnumVals(S) ==
  {U, Str("BOGUS")}
    \cup {Str(e) : e \in S \cap {"ENABLED", "REMOVED", "SEARCH", "ALL_TIME", "CUSTOM", "LAST_7_DAYS"}}
CustomDateRangeVals ==
  {U, Obj([startDate |-> Str("2024-01-01"), endDate |-> Str("2024-01-31")]),
      Obj([startDate |-> Str("2024-01-01")])}
KeywordItems ==
  [text : {U, Str("shoes"), Str("boots")},
   matchType : {Str("EXACT"), Str("BOGUS")},
   cpcBidMicros : {U, Num(5), Num(-5)}]
KeywordVals == {U} \cup {Arr(items) : items \in SeqsUpTo(KeywordItems, MaxKeywords)}

Fields(name) ==
  CASE name = "list_campaigns" ->
         [limit : {U, Num(5)}, includeRemoved : BoolVals,
          dateRange : EnumVals(DateRange13), customDateRange : CustomDateRangeVals]
    [] name = "create_campaign" ->
         [name : StrVals, budget : NumVals,
          advertisingChannelType : EnumVals({"SEARCH", "DISPLAY", "SHOPPING", "VIDEO", "MULTI_CHANNEL"}),
          status : EnumVals({"ENABLED", "PAUSED"})]
    [] name = "update_campaign" ->
         [campaignId : StrVals, name : IdVals,
          status : EnumVals({"ENABLED", "PAUSED", "REMOVED"}), budget : NumVals]
    [] name = "add_keywords" -> [adGroupId : StrVals, keywords : KeywordVals]
    [] name = "add_negative_keywords" ->
         [campaignId : IdVals, adGroupId : IdVals, keywords : KeywordVals]
    [] name = "update_keyword" ->
         [keywordId : StrVals, adGroupId : StrVals,
          status : EnumVals({"ENABLED", "PAUSED", "REMOVED"}), cpcBidMicros : MicrosVals]
    [] name = "get_search_terms_report" ->
         [campaignId : IdVals, adGroupId : IdVals,
          dateRange : EnumVals(DateRange7), customDateRange : CustomDateRangeVals,
          limit : {U, Num(5)}, minImpressions : {U, Num(5)}]
    [] name = "list_ad_groups" ->
         [campaignId : StrVals, limit : NumVals, includeRemoved : BoolVals]
    [] name = "create_ad_group" ->
         [campaignId : StrVals, name : IdVals, status : EnumVals({"ENABLED", "PAUSED"}),
          cpcBidMicros : MicrosVals, cpmBidMicros : {U, Num(5)},
          targetCpaMicros : {U, Num(5)}, targetRoas : {U, Num(5)}]
    [] name = "update_ad_group" ->
         [adGroupId : StrVals, name : IdVals,
          status : EnumVals({"ENABLED", "PAUSED", "REMOVED"}),
          cpcBidMicros : MicrosVals, cpmBidMicros : {U, Num(5)},
          targetCpaMicros : {U, Num(5)}, targetRoas : {U, Num(5)}]
    [] name = "get_ad_group" -> [adGroupId : StrVals]
    [] name = "list_ads" ->
         [adGroupId : IdVals, campaignId : IdVals, limit : NumVals, includeRemoved : BoolVals]
    [] OTHER -> {[campaignId |-> Str("42")]}

\* Names a caller may ask for: the registered ones and some that are not.
Names == SwitchCases \cup {"list_keywords", "get_campaign", "delete_campaign"}

\* request.params.arguments: an object, or absent.
Bags(name) == {U} \cup {Obj(b) : b \in Fields(name)}

----------------------------------------------------------------------------
\* The external account as the keyword queries see it.

KeywordIds == {"k1", "k2", "k3"}
KeywordLevels == {0, 1, 2}

\* One row of keyword_view: its text and the fields the queries order by.
KeywordRow(id, l) ==
  [f \in {"ad_group_criterion.keyword.text",
          "ad_group_criterion.quality_info.quality_score",
          "metrics.clicks", "metrics.cost_micros", "metrics.conversions",
          "metrics.ctr", "metrics.average_cpc", "metrics.conversion_rate"} |->
     CASE f = "ad_group_criterion.keyword.text" -> Str(id)
       [] f = "metrics.cost_micros" -> Num(l * 2500000)
       [] f = "metrics.average_cpc" -> Num(l * 500000)
       [] OTHER -> Num(l)]

\* The accounts of the model: at most MaxRows keywords, one row per keyword.
Accounts ==
  {A \in SUBSET {KeywordRow(id, l) : id \in KeywordIds, l \in KeywordLevels} :
     /\ Cardinality(A) <= MaxRows
     /\ \A x, y \in A :
          x["ad_group_criterion.keyword.text"] = y["ad_group_criterion.keyword.text"]
            => x = y}

\* A row passes a condition; only the `> 0` conditions tell the rows of the
\* model apart.
Holds(row, c) ==
  IF c.op = ">" /\ c.lhs \in DOMAIN row THEN row[c.lhs].n > c.rhs.n ELSE TRUE

Matching(q, acct) ==
  {r \in acct : \A i \in 1..Len(q.where) : Holds(r, q.where[i])}

\* ORDER BY <field> <dir>: every order of the rows that respects it; rows
\* with equal values come in either order.
Orderings(q, S) ==
  {p \in SeqsOfLen(S, Cardinality(S)) :
     /\ \A i, j \in 1..Len(p) : i # j => p[i] # p[j]
     /\ \A i \in 1..(Len(p) - 1) :
          IF q.dir = "DESC"
            THEN p[i][q.orderBy].n >= p[i + 1][q.orderBy].n
            ELSE p[i][q.orderBy].n <= p[i + 1][q.orderBy].n}

\* LIMIT n
Limited(p, n) == SubSeq(p, 1, IF n < Len(p) THEN n ELSE Len(p))

\* The answers of the account to a keyword_view query.
QueryAnswers(q, acct) ==
  {[rows |-> Limited(p, q.limit.n), results |-> <<>>] :
     p \in Orderings(q, Matching(q, acct))}

\* Budgets in currency units: every amount of whole hundredths up to
\* MaxBudget / 100, and 12.50.
BudgetVals == {Decimal(h) : h \in 0..MaxBudget} \cup {Decimal(1250)}

\* The arguments the exported handlers are called with.
ExportedFields(name) ==
  CASE name = "get_top_bottom_keywords" ->
         [metric : {Str(m) : m \in KeywordMetrics},
          dateRange : {U},
          topCount : {U, Num(1), Num(3)},
          bottomCount : {Num(1), Num(3)},
          campaignId : {U, Str("42")},
          adGroupId : {U},
          includeNegative : {U, Bool(TRUE)}]
    [] name = "get_campaign_comparison" ->
         [dateRange : {U},
          metric : {U, Str("COST"), Str("CLICKS"), Str("ROAS"), Str("CPA")},
          includeRemoved : {U, Bool(TRUE)}]
    [] name = "get_product_performance" ->
         [campaignId : {U, Str("42")}, dateRange : {U, Str("ALL_TIME")}, limit : {U},
          orderBy : {U, Str("ROAS")}, orderDirection : {U}]
    [] name = "get_product_partition_performance" ->
         [adGroupId : {Str("42")}, dateRange : {U, Str("ALL_TIME")}]
    [] name = "get_top_bottom_products" ->
         [metric : {Str(m) : m \in ProductMetrics}, dateRange : {U},
          topCount : {U}, bottomCount : {U}, campaignId : {U, Str("42")}]
    [] name = "list_campaigns" ->
         [limit : {U}, includeRemoved : {U}, dateRange : {U, Str("LAST_7_DAYS")},
          customDateRange : {U}]
    [] name = "get_campaign" -> [campaignId : {Str("42")}]
    [] name = "update_ad" ->
         [adId : {Str("7")}, adGroupId : {Str("42")}, status : {U, Str("PAUSED")}]
    [] name = "update_conversion_action" ->
         [conversionActionId : {Str("42")},
          name : {U, Str("42")},
          status : {U, Str("HIDDEN")},
          valueSettings :
            {U, Obj([defaultValue |-> Num(5)]),
                Obj([defaultValue |-> Num(5), defaultCurrencyCode |-> Str("EUR"),
                     alwaysUseDefaultValue |-> Bool(TRUE)])},
          countingType : {U, Str("ONE_PER_CLICK")},
          attributionModel : {U},
          clickThroughLookbackWindowDays : {U, Num(5)},
          viewThroughLookbackWindowDays : {U}]
    [] name = "create_campaign" ->
         [name : {Str("42")}, budget : BudgetVals,
          advertisingChannelType : {Str("SEARCH")}, status : {U}]
    [] name = "update_campaign" ->
         [campaignId : {Str("42")}, name : {U},
          status : {U, Str("ENABLED")}, budget : {U} \cup BudgetVals]

----------------------------------------------------------------------------
\* The state of one invocation.

VARIABLES
  pc,             \* "idle", "awaiting" (an external call is pending), "done",
                  \* "listed" (a list-tools request was answered)
  request,        \* request.params: name and arguments
  params,         \* the value returned by schema.parse
  at,             \* the await the handler is suspended at
  sent,           \* the external requests issued so far, in order
  settled,        \* how each answered request settled, in order
  outcome,        \* what the call-tool handler returned or threw
  thrown,         \* the value the catch block of the call-tool handler caught
  schemaRun,      \* schema.parse was called
  handlerInvoked, \* the tool's handler was called
  account,        \* the keyword rows the external account holds
  calls,          \* the invocations in flight when the transport runs two at once
  handles         \* the number of client handles created so far

vars ==
  <<pc, request, params, at, sent, settled, outcome, thrown, schemaRun, handlerInvoked,
    account, calls, handles>>

\* The variables of the concurrent invocations.
concurrent == <<calls, handles>>

\* One invocation: the locals of the call-tool handler and of the tool's
\* handler, and the client handle the tool's handler created (0: none).
IdleCall ==
  [pc |-> "idle", request |-> [name |-> "", arguments |-> U], params |-> <<>>, at |-> "",
   sent |-> <<>>, settled |-> <<>>,
   outcome |-> [kind |-> "none", content |-> <<>>, error |-> NonError], client |-> 0]

NoRequest == [name |-> "", arguments |-> U]
NoThrow == [isError |-> FALSE, isMcp |-> FALSE, code |-> "none", msg |-> <<>>]

Init ==
  /\ pc = "idle"
  /\ request = NoRequest
  /\ params = <<>>
  /\ at = ""
  /\ sent = <<>>
  /\ settled = <<>>
  /\ outcome = NoOutcome
  /\ thrown = NoThrow
  /\ schemaRun = FALSE
  /\ handlerInvoked = FALSE
  /\ account = {}
  /\ calls = [i \in 1..2 |-> IdleCall]
  /\ handles = 0

\* Carry a handler on to its next await, or to the end of the invocation.
Continue(eff) ==
  CASE eff.tag = "call" ->
         /\ pc' = "awaiting"
         /\ at' = eff.at
         /\ sent' = Append(sent, eff.req)
         /\ outcome' = outcome
         /\ thrown' = thrown
    [] eff.tag = "return" ->
         /\ pc' = "done"
         /\ at' = ""
         /\ sent' = sent
         /\ outcome' = SuccessEnvelope(eff.val)
         /\ thrown' = thrown
    [] eff.tag = "throw" ->
         /\ pc' = "done"
         /\ at' = ""
         /\ sent' = sent
         /\ outcome' = ErrorEnvelope(Catch(eff.err))
         /\ thrown' = eff.err

\* A call-tool request arrives: the switch, schema.parse, and the handler up
\* to its first await.
CallTool(name, a) ==
  /\ pc = "idle"
  /\ request' = [name |-> name, arguments |-> a]
  /\ settled' = <<>>
  /\ account' = account
  /\ UNCHANGED concurrent
  /\ IF ~Routed(name)
       THEN /\ schemaRun' = FALSE
            /\ handlerInvoked' = FALSE
            /\ params' = <<>>
            /\ Continue(Throw(McpError("MethodNotFound", <<"Unknown tool", name>>)))
       ELSE /\ schemaRun' = TRUE
            /\ IF ~ParseOk(SchemaOf(name), a)
                 THEN /\ handlerInvoked' = FALSE
                      /\ params' = <<>>
                      /\ Continue(Throw(ParseError(SchemaOf(name), a)))
                 ELSE /\ handlerInvoked' = TRUE
                      /\ params' = Parsed(SchemaOf(name), a.fields)
                      /\ Continue(HandlerOf(name, Parsed(SchemaOf(name), a.fields),
                                            "start", Started))

\* The pending external call returns: the handler resumes.
ExternalReturns(resp) ==
  /\ pc = "awaiting"
  /\ settled' = Append(settled, Fulfilled(resp))
  /\ Continue(HandlerOf(request.name, params, at, Fulfilled(resp)))
  /\ UNCHANGED <<request, params, schemaRun, handlerInvoked, account, calls, handles>>

\* The pending external call raises: the handler resumes with the rejection.
ExternalRaises(e) ==
  /\ pc = "awaiting"
  /\ settled' = Append(settled, Rejected(e))
  /\ Continue(HandlerOf(request.name, params, at, Rejected(e)))
  /\ UNCHANGED <<request, params, schemaRun, handlerInvoked, account, calls, handles>>

\* A list-tools request: the handler returns the tool array.
ListTools ==
  /\ pc = "idle"
  /\ pc' = "listed"
  /\ outcome' = [kind |-> "tools", content |-> allTools, error |-> NonError]
  /\ UNCHANGED <<request, params, at, sent, settled, thrown, schemaRun, handlerInvoked,
                 account, calls, handles>>

\* The invocation is over; the server waits for the next request.
NextRequest ==
  /\ pc \in {"done", "listed"}
  /\ pc' = "idle"
  /\ request' = NoRequest
  /\ params' = <<>>
  /\ at' = ""
  /\ sent' = <<>>
  /\ settled' = <<>>
  /\ outcome' = NoOutcome
  /\ thrown' = NoThrow
  /\ schemaRun' = FALSE
  /\ handlerInvoked' = FALSE
  /\ account' = {}
  /\ UNCHANGED concurrent

Next ==
  \/ pc = "idle" /\ \E name \in Names : \E a \in Bags(name) : CallTool(name, a)
  \/ pc = "awaiting" /\ \E resp \in Responses(sent[Len(sent)]) : ExternalReturns(resp)
  \/ pc = "awaiting" /\ \E e \in Raised : ExternalRaises(e)
  \/ ListTools
  \/ NextRequest

Spec == Init /\ [][Next]_vars

----------------------------------------------------------------------------
\* The exported handlers called by a caller that parses the arguments with
\* the handler's schema, as the call-tool switch does for the registered
\* tools, and gets the handler's own return value or error.

ExportedNames ==
  {"create_campaign", "update_campaign", "get_top_bottom_keywords",
   "get_campaign_comparison", "update_ad", "update_conversion_action",
   "get_product_performance", "get_product_partition_performance",
   "get_top_bottom_products", "list_campaigns", "get_campaign"}

ExportedSchemaOf(name) ==
  CASE name = "get_top_bottom_keywords" -> getTopBottomKeywordsSchema
    [] name = "get_campaign_comparison" -> getCampaignComparisonSchema
    [] name = "update_ad" -> updateAdSchema
    [] name = "get_campaign" -> getCampaignSchema
    [] name = "get_product_performance" -> getProductPerformanceSchema
    [] name = "get_product_partition_performance" -> getProductPartitionPerformanceSchema
    [] name = "get_top_bottom_products" -> getTopBottomProductsSchema
    [] name = "update_conversion_action" -> updateConversionActionSchema
    [] OTHER -> SchemaOf(name)

ExportedHandlerOf(name, args, label, st, hist) ==
  CASE name = "get_top_bottom_keywords" ->
         getTopBottomKeywords(args, label, st,
                              IF Len(hist) >= 1 THEN hist[1].resp.rows ELSE <<>>)
    [] name = "get_campaign_comparison" -> getCampaignComparison(args, label, st)
    [] name = "update_ad" -> updateAd(args, label, st)
    [] name = "get_campaign" -> getCampaign(args, label, st)
    [] name = "get_product_performance" -> getProductPerformance(args, label, st)
    [] name = "get_product_partition_performance" ->
         getProductPartitionPerformance(args, label, st)
    [] name = "get_top_bottom_products" ->
         getTopBottomProducts(args, label, st,
                              IF Len(hist) >= 1 THEN hist[1].resp.rows ELSE <<>>)
    [] name = "update_conversion_action" -> updateConversionAction(args, label, st)
    [] OTHER -> HandlerOf(name, args, label, st)

\* What the promise of a handler settles with.
HandlerValue(v) == [kind |-> "success", content |-> <<v>>, error |-> NonError]
HandlerError(e) == [kind |-> "error", content |-> <<>>, error |-> e]

ExportedContinue(eff) ==
  CASE eff.tag = "call" ->
         /\ pc' = "awaiting"
         /\ at' = eff.at
         /\ sent' = Append(sent, eff.req)
         /\ outcome' = outcome
         /\ thrown' = thrown
    [] eff.tag = "return" ->
         /\ pc' = "done"
         /\ at' = ""
         /\ sent' = sent
         /\ outcome' = HandlerValue(eff.val)
         /\ thrown' = thrown
    [] eff.tag = "throw" ->
         /\ pc' = "done"
         /\ at' = ""
         /\ sent' = sent
         /\ outcome' = HandlerError(eff.err)
         /\ thrown' = eff.err

\* A handler is called with parsed arguments and runs up to its first await.
InvokeExported(name, a, acct) ==
  /\ pc = "idle"
  /\ ParseOk(ExportedSchemaOf(name), a)
  /\ request' = [name |-> name, arguments |-> a]
  /\ params' = Parsed(ExportedSchemaOf(name), a.fields)
  /\ settled' = <<>>
  /\ schemaRun' = TRUE
  /\ handlerInvoked' = TRUE
  /\ account' = acct
  /\ UNCHANGED concurrent
  /\ ExportedContinue(ExportedHandlerOf(name, Parsed(ExportedSchemaOf(name), a.fields),
                                        "start", Started, <<>>))

\* The answers the pending request can get from the external client; the
\* answer to the bottom query of the products has at most one row.
ExportedResponses(r, acct) ==
  CASE r.kind = "query" /\ r.query.from = "keyword_view" -> QueryAnswers(r.query, acct)
    [] r.kind = "query" /\ r.query.from = "shopping_performance_view"
         /\ r.query.dir = "ASC" ->
         {resp \in Responses(r) : Len(resp.rows) <= 1}
    [] OTHER -> Responses(r)

ExportedReturns(resp) ==
  /\ pc = "awaiting"
  /\ settled' = Append(settled, Fulfilled(resp))
  /\ ExportedContinue(ExportedHandlerOf(request.name, params, at, Fulfilled(resp), settled))
  /\ UNCHANGED <<request, params, schemaRun, handlerInvoked, account, calls, handles>>

ExportedRaises(e) ==
  /\ pc = "awaiting"
  /\ settled' = Append(settled, Rejected(e))
  /\ ExportedContinue(ExportedHandlerOf(request.name, params, at, Rejected(e), settled))
  /\ UNCHANGED <<request, params, schemaRun, handlerInvoked, account, calls, handles>>

ExportedNext ==
  \/ pc = "idle" /\ \E name \in ExportedNames : \E a \in {Obj(b) : b \in ExportedFields(name)} :
       \E acct \in (IF name = "get_top_bottom_keywords" THEN Accounts ELSE {{}}) :
         InvokeExported(name, a, acct)
  \/ pc = "awaiting" /\ \E resp \in ExportedResponses(sent[Len(sent)], account) :
       ExportedReturns(resp)
  \/ pc = "awaiting" /\ \E e \in Raised : ExportedRaises(e)
  \/ NextRequest

ExportedSpec == Init /\ [][ExportedNext]_vars

----------------------------------------------------------------------------
\* Two call-tool requests in flight at once: the transport hands the second
\* request to the handler while the first is suspended at an await.  The
\* module keeps nothing between the awaits but the locals of each call.

ConcurrentNames == {"update_campaign", "list_campaigns", "get_campaign"}

ConcurrentBags(name) ==
  CASE name = "update_campaign" ->
         {Obj(b) : b \in [campaignId : {Str("42"), Str("43")}, name : {U},
                          status : {U}, budget : {U, Num(5)}]}
    [] name = "list_campaigns" -> {U, Obj([limit |-> Num(5)])}
    [] OTHER -> {U}

\* The answers to a request, with at most one row for a query.
ConcurrentResponses(r) == {resp \in Responses(r) : Len(resp.rows) <= 1}

\* The switch, schema.parse and the handler up to its first await.
Dispatch(name, a) ==
  IF ~Routed(name) THEN Throw(McpError("MethodNotFound", <<"Unknown tool", name>>))
  ELSE IF ~ParseOk(SchemaOf(name), a) THEN Throw(ParseError(SchemaOf(name), a))
  ELSE HandlerOf(name, Parsed(SchemaOf(name), a.fields), "start", Started)

\* createGoogleAdsClient runs at the top of a tool's handler.
CreatesClient(name, a) == Routed(name) /\ ParseOk(SchemaOf(name), a)

\* An invocation carried on to its next await or to its end.
Advance(c, eff) ==
  CASE eff.tag = "call" ->
         [c EXCEPT !.pc = "awaiting", !.at = eff.at, !.sent = Append(@, eff.req)]
    [] eff.tag = "return" ->
         [c EXCEPT !.pc = "done", !.at = "", !.outcome = SuccessEnvelope(eff.val)]
    [] eff.tag = "throw" ->
         [c EXCEPT !.pc = "done", !.at = "", !.outcome = ErrorEnvelope(Catch(eff.err))]

\* A handler that keeps its arguments in a variable of its module, which
\* the latest call of the same tool overwrites.
ResumeSharedArguments(cs, i, st) ==
  LET latest == CHOOSE j \in DOMAIN cs : \A k \in DOMAIN cs : cs[j].client >= cs[k].client
  IN HandlerOf(cs[i].request.name,
               IF cs[latest].request.name = cs[i].request.name
                 THEN cs[latest].params ELSE cs[i].params,
               cs[i].at, st)

\* The handler of invocation i resumes with its own locals.
Resume(cs, i, st) == HandlerOf(cs[i].request.name, cs[i].params, cs[i].at, st)

ConcurrentCall(i, name, a) ==
  /\ calls[i].pc = "idle"
  /\ calls' = [calls EXCEPT ![i] =
       Advance([IdleCall EXCEPT
                  !.request = [name |-> name, arguments |-> a],
                  !.params = IF CreatesClient(name, a)
                               THEN Parsed(SchemaOf(name), a.fields) ELSE <<>>,
                  !.client = IF CreatesClient(name, a) THEN handles + 1 ELSE 0],
               Dispatch(name, a))]
  /\ handles' = IF CreatesClient(name, a) THEN handles + 1 ELSE handles
  /\ UNCHANGED <<pc, request, params, at, sent, settled, outcome, thrown, schemaRun,
                 handlerInvoked, account>>

ConcurrentReturns(i, resp) ==
  /\ calls[i].pc = "awaiting"
  /\ calls' = [calls EXCEPT ![i] =
       Advance([@ EXCEPT !.settled = Append(@, Fulfilled(resp))],
               Resume(calls, i, Fulfilled(resp)))]
  /\ UNCHANGED <<pc, request, params, at, sent, settled, outcome, thrown, schemaRun,
                 handlerInvoked, account, handles>>

ConcurrentRaises(i, e) ==
  /\ calls[i].pc = "awaiting"
  /\ calls' = [calls EXCEPT ![i] =
       Advance([@ EXCEPT !.settled = Append(@, Rejected(e))],
               Resume(calls, i, Rejected(e)))]
  /\ UNCHANGED <<pc, request, params, at, sent, settled, outcome, thrown, schemaRun,
                 handlerInvoked, account, handles>>

\* Both invocations are over; their locals and handles are garbage.
ConcurrentFinish ==
  /\ \A i \in DOMAIN calls : calls[i].pc = "done"
  /\ calls' = [i \in DOMAIN calls |-> IdleCall]
  /\ handles' = 0
  /\ UNCHANGED <<pc, request, params, at, sent, settled, outcome, thrown, schemaRun,
                 handlerInvoked, account>>

ConcurrentNext ==
  \/ \E i \in DOMAIN calls : calls[i].pc = "idle" /\
       \E name \in ConcurrentNames : \E a \in ConcurrentBags(name) : ConcurrentCall(i, name, a)
  \/ \E i \in DOMAIN calls : calls[i].pc = "awaiting" /\
       \E resp \in ConcurrentResponses(calls[i].sent[Len(calls[i].sent)]) :
         ConcurrentReturns(i, resp)
  \/ \E i \in DOMAIN calls : calls[i].pc = "awaiting" /\
       \E e \in Raised : ConcurrentRaises(i, e)
  \/ ConcurrentFinish

ConcurrentSpec == Init /\ [][ConcurrentNext]_vars

----------------------------------------------------------------------------
\* Properties of the call-tool handler.

Invoked == pc \in {"awaiting", "done"}
Finished == pc = "done"
Succeeded == Finished /\ outcome.kind = "success"
Failed == Finished /\ outcome.kind = "error"
FailedWith(code) == Failed /\ outcome.error.isMcp /\ outcome.error.code = code

\* The raw argument of the request, undefined when the bag or the key is absent.
Arg(f) ==
  IF request.arguments.k = "object" THEN Get(request.arguments.fields, f) ELSE U

\* C1: a call-tool request whose name is not a registered tool name ends in
\* a MethodNotFound error; no schema is run, no handler is invoked and no
\* external request is issued.
C1_UnknownToolIsMethodNotFound ==
  (Invoked /\ request.name \notin workingTools) =>
    /\ FailedWith("MethodNotFound")
    /\ ~schemaRun
    /\ ~handlerInvoked
    /\ sent = <<>>

C1_Witness ==
  /\ Finished
  /\ request.name = "list_keywords"
  /\ FailedWith("MethodNotFound")

\* The three outcomes of a call-tool request.
IsSuccessEnvelope ==
  /\ outcome.kind = "success"
  /\ Len(outcome.content) = 1
  /\ outcome.content[1].type = "text"
  /\ handlerInvoked
  /\ thrown = NoThrow
IsMethodNotFound ==
  /\ outcome.kind = "error"
  /\ outcome.error.isMcp
  /\ outcome.error.code = "MethodNotFound"
  /\ request.name \notin workingTools
IsInternalError ==
  /\ outcome.kind = "error"
  /\ outcome.error.isMcp
  /\ outcome.error.code = "InternalError"
  /\ request.name \in workingTools
  /\ thrown # NoThrow
  /\ ~thrown.isMcp

RequiredOf(schema) == {f \in DOMAIN schema : ~schema[f].optional}
EnumsOf(schema) == {f \in DOMAIN schema : schema[f].type = "enum"}

\* An object misses a required field of a schema, or carries a value outside
\* one of its enums.
MissesRequired(schema, o) == \E f \in RequiredOf(schema) : ~Defined(Get(o, f))
OutsideEnum(schema, o) ==
  \E f \in EnumsOf(schema) :
    Defined(Get(o, f)) /\ ~(Get(o, f).k = "string" /\ Get(o, f).s \in schema[f].enum)

\* The same, for the objects nested in the bag.
NestedObjects(schema, o) ==
  {<<schema[f].item, Get(o, f).fields>> :
     f \in {g \in DOMAIN schema : schema[g].type = "object" /\ Get(o, g).k = "object"}}
  \cup
  UNION {{<<schema[f].item, Get(o, f).items[i]>> : i \in 1..Len(Get(o, f).items)} :
           f \in {g \in DOMAIN schema : schema[g].type = "array" /\ Get(o, g).k = "array"}}

InvalidArguments ==
  LET schema == SchemaOf(request.name)
      o == IF request.arguments.k = "object" THEN request.arguments.fields ELSE <<>>
  IN \/ MissesRequired(schema, o)
     \/ OutsideEnum(schema, o)
     \/ \E n \in NestedObjects(schema, o) :
          MissesRequired(n[1], n[2]) \/ OutsideEnum(n[1], n[2])

\* C3: when the arguments of a registered tool miss a required field or
\* carry a value outside a declared enum, the invocation ends in an error,
\* the handler never runs (so no default stands in for the invalid value)
\* and no external request is issued.
C3_InvalidArgumentsRejected ==
  (Invoked /\ request.name \in workingTools /\ InvalidArguments) =>
    /\ Failed
    /\ ~handlerInvoked
    /\ params = <<>>
    /\ sent = <<>>

C3_Witness ==
  /\ Finished
  /\ request.name = "create_campaign"
  /\ Arg("name") = Str("42")
  /\ Arg("budget") = Num(5)
  /\ Arg("advertisingChannelType") = Str("SEARCH")
  /\ Arg("status") = Str("BOGUS")
  /\ FailedWith("InternalError")
  /\ sent = <<>>

\* C4 as stated: list_campaigns and get_search_terms_report called with
\* dateRange CUSTOM and no customDateRange fail, and send no query.
C4_CustomWithoutRangeFails ==
  (/\ Invoked
   /\ request.name \in {"list_campaigns", "get_search_terms_report"}
   /\ Arg("dateRange") = Str("CUSTOM")
   /\ ~Defined(Arg("customDateRange"))) =>
    /\ Failed
    /\ sent = <<>>

\* The mutation requests issued so far.
Mutations == {i \in 1..Len(sent) : sent[i].kind = "mutate"}
IsRequest(i, svc, m) ==
  i \in 1..Len(sent) /\ sent[i].service = svc /\ sent[i].method = m

WriteTools ==
  {"create_campaign", "update_campaign", "create_ad_group", "update_ad_group",
   "add_keywords", "add_negative_keywords", "update_keyword"}

\* C5 as stated: every successful invocation of a write tool issues exactly
\* one mutation request.
C5_AsStated ==
  (Succeeded /\ request.name \in WriteTools) => Cardinality(Mutations) = 1

\* C5 as amended: a successful create_ad_group, update_ad_group,
\* add_keywords, add_negative_keywords or update_keyword issues exactly one
\* mutation request; a successful create_campaign issues exactly two (the
\* budget create, then the campaign create); a successful update_campaign
\* issues one budget update if and only if a budget is supplied and the
\* lookup finds the campaign's budget resource, and one campaign update if
\* and only if a name or a status is supplied.
C5_MutationsPerWriteTool ==
  Succeeded =>
    /\ request.name \in WriteTools \ {"create_campaign", "update_campaign"} =>
         Cardinality(Mutations) = 1
    /\ request.name = "create_campaign" =>
         /\ Cardinality(Mutations) = 2
         /\ IsRequest(1, "campaignBudgets", "create")
         /\ IsRequest(2, "campaigns", "create")
    /\ request.name = "update_campaign" =>
         LET budgetFound ==
               /\ Defined(Arg("budget"))
               /\ Len(settled[1].resp.rows) > 0
               /\ settled[1].resp.rows[1].budget_rn # ""
             updatesSupplied == Defined(Arg("name")) \/ Defined(Arg("status"))
         IN /\ budgetFound <=>
                 \E i \in Mutations : IsRequest(i, "campaignBudgets", "update")
            /\ updatesSupplied <=>
                 \E i \in Mutations : IsRequest(i, "campaigns", "update")
            /\ Cardinality(Mutations) =
                 (IF budgetFound THEN 1 ELSE 0) + (IF updatesSupplied THEN 1 ELSE 0)

C5_Witness ==
  /\ Succeeded
  /\ request.name = "update_campaign"
  /\ Defined(Arg("budget"))
  /\ Defined(Arg("status"))
  /\ Cardinality(Mutations) = 2

\* C6: create_campaign issues the budget create first, the campaign create
\* only after the budget create returned, with the resource name the
\* budget create returned; after a failed budget create it issues nothing.
C6_BudgetThenCampaign ==
  (Invoked /\ request.name = "create_campaign") =>
    /\ Len(sent) >= 1 => IsRequest(1, "campaignBudgets", "create")
    /\ \A i \in 1..Len(sent) :
         IsRequest(i, "campaigns", "create") =>
           /\ i = 2
           /\ settled[1].ok
           /\ sent[i].operations[1].fields.campaign_budget
                = Str(settled[1].resp.results[1].resource_name)
    /\ (Len(settled) >= 1 /\ ~settled[1].ok) => (Len(sent) = 1 /\ Failed)

C6_Witness ==
  /\ Succeeded
  /\ request.name = "create_campaign"
  /\ IsRequest(2, "campaigns", "create")
  /\ settled[1].resp.results[1].resource_name = "customers/1234567890/campaignBudgets/8"

\* The fields an update operation changes.
ChangedFields(o) == DOMAIN o.fields \ {"resource_name"}

\* C7: update_keyword with only status supplied updates exactly {status};
\* with only cpcBidMicros supplied, exactly {cpc_bid_micros}.
C7_UpdateKeywordChangesOnlySupplied ==
  (request.name = "update_keyword" /\ Len(sent) >= 1) =>
    /\ (Defined(Arg("status")) /\ ~Defined(Arg("cpcBidMicros"))) =>
         ChangedFields(sent[1].operations[1]) = {"status"}
    /\ (~Defined(Arg("status")) /\ Defined(Arg("cpcBidMicros"))) =>
         ChangedFields(sent[1].operations[1]) = {"cpc_bid_micros"}

C7_Witness ==
  /\ Succeeded
  /\ request.name = "update_keyword"
  /\ Arg("status") = Str("ENABLED")
  /\ ~Defined(Arg("cpcBidMicros"))
  /\ ChangedFields(sent[1].operations[1]) = {"status"}

\* C8: the update_mask paths of update_ad_group are exactly the fields of
\* the update payload other than resource_name, and exactly the fields of
\* the arguments the caller supplied.
C8_UpdateAdGroupMaskMatches ==
  (request.name = "update_ad_group" /\ Len(sent) >= 1) =>
    LET o == sent[1].operations[1]
        paths == {o.paths[i] : i \in 1..Len(o.paths)}
    IN /\ o.hasMask
       /\ Cardinality(paths) = Len(o.paths)
       /\ paths = ChangedFields(o)
       /\ paths = {updateAdGroupFieldOf(a) :
                     a \in {b \in {"name", "status", "cpcBidMicros", "cpmBidMicros",
                                   "targetCpaMicros", "targetRoas"} : Defined(Arg(b))}}

C8_Witness ==
  /\ Succeeded
  /\ request.name = "update_ad_group"
  /\ Defined(Arg("status"))
  /\ Defined(Arg("targetRoas"))
  /\ ~Defined(Arg("name"))
  /\ sent[1].operations[1].paths = <<"status", "target_roas">>

\* C9: add_negative_keywords with neither campaignId nor adGroupId ends in
\* an error and issues no external request.
C9_NegativeKeywordsNeedALevel ==
  (/\ Invoked
   /\ request.name = "add_negative_keywords"
   /\ ~Defined(Arg("campaignId"))
   /\ ~Defined(Arg("adGroupId"))) =>
    /\ Failed
    /\ sent = <<>>

C9_Witness ==
  /\ Failed
  /\ request.name = "add_negative_keywords"
  /\ ~Defined(Arg("campaignId"))
  /\ ~Defined(Arg("adGroupId"))
  /\ handlerInvoked
  /\ Len(params.keywords.items) = MaxKeywords
  /\ sent = <<>>

\* C10: get_ad_group whose query returns no row ends in an error, never in
\* a success envelope.
C10_GetAdGroupNotFound ==
  (/\ request.name = "get_ad_group"
   /\ Len(settled) = 1
   /\ settled[1].ok
   /\ settled[1].resp.rows = <<>>) =>
    /\ FailedWith("InternalError")
    /\ outcome.error.msg =
         <<"Tool execution failed", "Failed to get ad group", "Ad group not found">>

C10_Witness ==
  /\ Failed
  /\ request.name = "get_ad_group"
  /\ Len(sent) = 1
  /\ Len(settled) = 1
  /\ settled[1].ok
  /\ settled[1].resp.rows = <<>>

\* The last external request of the invocation failed with an Error instance.
LastRaisedError ==
  /\ Len(settled) >= 1
  /\ ~settled[Len(settled)].ok
  /\ settled[Len(settled)].err.isError

\* C11 as stated: when the external client raises during the handler of a
\* registered tool, the error that reaches the caller carries a prefix that
\* names the failed operation, followed by the original message.
C11_ExternalFailurePrefixed ==
  (Finished /\ request.name \in workingTools /\ LastRaisedError) =>
    /\ FailedWith("InternalError")
    /\ Len(outcome.error.msg) = 3
    /\ outcome.error.msg[1] = "Tool execution failed"
    /\ outcome.error.msg[2] # "Tool execution failed"
    /\ outcome.error.msg[3] = settled[Len(settled)].err.msg[1]

\* C12: within one invocation a failed external request is the last request
\* of the invocation: it is not issued again, no later step is issued, and
\* the invocation ends in an error.
C12_NoRequestAfterFailure ==
  \A i \in 1..Len(settled) :
    ~settled[i].ok =>
      /\ Len(sent) = i
      /\ Failed
      /\ \A j \in 1..(i - 1) : settled[j].ok

C12_Witness ==
  /\ Failed
  /\ request.name = "get_top_bottom_keywords"
  /\ Len(sent) = 2
  /\ Len(settled) = 2
  /\ settled[1].ok
  /\ Len(settled[1].resp.rows) = MaxRows
  /\ ~settled[2].ok

\* The value a successful call-tool invocation returns to the caller.
ReturnedValue == outcome.content[1].text.json

\* The batch tools reached their create request.
BatchRequested ==
  /\ handlerInvoked
  /\ \/ request.name = "add_keywords"
     \/ /\ request.name = "add_negative_keywords"
        /\ Truthy(Arg("campaignId")) \/ Truthy(Arg("adGroupId"))

\* C13: add_keywords and add_negative_keywords with n keywords issue exactly
\* one create request, with n operations, one per input keyword in input
\* order; when the request fails the call ends in an error that carries no
\* per-item result; on success addedKeywords is the number of results.
C13_OneBatchRequest ==
  BatchRequested =>
    LET input == Arg("keywords").items
    IN /\ Len(sent) = 1
       /\ sent[1].kind = "mutate"
       /\ sent[1].method = "create"
       /\ ~sent[1].single
       /\ Len(sent[1].operations) = Len(input)
       /\ \A i \in 1..Len(input) :
            /\ sent[1].operations[i].type = "create"
            /\ sent[1].operations[i].fields.keyword_text = input[i].text
            /\ sent[1].operations[i].fields.keyword_match_type = input[i].matchType
       /\ (Len(settled) = 1 /\ ~settled[1].ok) =>
            (Failed /\ outcome.content = <<>>)
       /\ (Len(settled) = 1 /\ settled[1].ok) =>
            (Succeeded /\ ReturnedValue.addedKeywords = Len(settled[1].resp.results))

C13_Witness ==
  /\ Succeeded
  /\ request.name = "add_keywords"
  /\ Len(Arg("keywords").items) = 2
  /\ Arg("keywords").items[1].text = Str("boots")
  /\ Arg("keywords").items[2].text = Str("shoes")
  /\ sent[1].operations[1].fields.keyword_text = Str("boots")
  /\ ReturnedValue.addedKeywords = 2

\* The names of a tool listing, and the fields a schema rejects when absent.
ListedNames(tools) == {tools[i].name : i \in 1..Len(tools)}
RejectsAbsent(schema) == {f \in DOMAIN schema : ~ParseAny(schema[f], U).ok}

\* C14: the list-tools result names each registered tool exactly once, the
\* listed names are the names the call-tool switch routes to a handler, and
\* each tool's advertised `required` list is the set of fields whose absence
\* makes the tool's schema reject the arguments.
C14_ListingMatchesSchemas ==
  pc = "listed" =>
    LET tools == outcome.content
    IN /\ Cardinality(ListedNames(tools)) = Len(tools)
       /\ ListedNames(tools) = {n \in Names \cup ListedNames(tools) : Routed(n)}
       /\ \A i \in 1..Len(tools) :
            LET req == tools[i].required
            IN /\ Cardinality({req[j] : j \in 1..Len(req)}) = Len(req)
               /\ {req[j] : j \in 1..Len(req)} = RejectsAbsent(SchemaOf(tools[i].name))

C14_Witness ==
  /\ pc = "listed"
  /\ Len(outcome.content) = 12
  /\ \E i \in 1..Len(outcome.content) :
       /\ outcome.content[i].name = "create_ad_group"
       /\ outcome.content[i].required = <<"campaignId", "name">>

\* C15 as stated: every tool of the README's "Available Tools" section is
\* in the list-tools result, and a call-tool request that names it is not
\* answered with MethodNotFound.
C15_ReadmeToolsRegistered ==
  /\ pc = "listed" => ReadmeTools \subseteq ListedNames(outcome.content)
  /\ (Finished /\ request.name \in ReadmeTools) => ~FailedWith("MethodNotFound")

\* The fields of a mutation that hold a bid in micros.
MicrosFields == {"cpc_bid_micros", "cpm_bid_micros", "target_cpa_micros"}
MicrosArgs == {"cpcBidMicros", "cpmBidMicros", "targetCpaMicros"}
NonNegativeInteger(v) == IsInteger(v) /\ v.n >= 0

\* The bids among the arguments: the top-level ones and those of the items
\* of the keyword list.
SuppliedMicros ==
  {Arg(f) : f \in MicrosArgs}
    \cup (IF Arg("keywords").k = "array"
            THEN {Get(Arg("keywords").items[i], "cpcBidMicros") :
                    i \in 1..Len(Arg("keywords").items)}
            ELSE {})

\* C16 as stated: in create_ad_group, update_ad_group, add_keywords and
\* update_keyword a bid in micros that reaches a mutation request is a
\* non-negative integer, and a negative or fractional bid among the
\* arguments ends the call in an error before any request.
C16_MicrosNonNegativeIntegers ==
  request.name \in {"create_ad_group", "update_ad_group", "add_keywords", "update_keyword"} =>
    /\ \A i \in 1..Len(sent) : \A j \in 1..Len(sent[i].operations) :
         \A f \in MicrosFields \cap DOMAIN sent[i].operations[j].fields :
           LET v == sent[i].operations[j].fields[f]
           IN Defined(v) => NonNegativeInteger(v)
    /\ (Invoked /\ \E v \in SuppliedMicros : v.k = "number" /\ ~NonNegativeInteger(v)) =>
         (Failed /\ sent = <<>>)

\* The product b * 1,000,000 of a budget, as an integer count of micros.
ExactMillion(b) == IF b.s = "e-2" THEN Num(b.n * 10000) ELSE Num(b.n * 1000000)

\* The value an exported handler returned.
HandlerReturned == outcome.content[1]

\* C17 as stated: the budget operation of create_campaign and of
\* update_campaign carries amount_micros = budget x 1,000,000 for every
\* budget of whole hundredths, and the normalizer turns a returned micros
\* value m into m / 1,000,000 (2500000 into 2.5).
C17_MicrosConversionExact ==
  /\ request.name \in {"create_campaign", "update_campaign"} =>
       \A i \in 1..Len(sent) :
         sent[i].service = "campaignBudgets" =>
           sent[i].operations[1].fields.amount_micros = ExactMillion(Arg("budget"))
  /\ (Succeeded /\ request.name = "get_top_bottom_keywords") =>
       \A i \in 1..Len(settled[1].resp.rows) :
         LET m == settled[1].resp.rows[i]["metrics.cost_micros"]
             cost == HandlerReturned.topPerformers[i].metrics.cost
         IN /\ m = Num(2500000) => cost = Decimal(250)
            /\ m = Num(5000000) => cost = Num(5)

\* C18 as stated: every monetary value of the list_campaigns output (budget,
\* metrics.cost, metrics.avgCpc, metrics.costPerConversion) is the micros
\* value of the row divided by 1,000,000.
C18_ListCampaignsMoneyDivided ==
  (Succeeded /\ request.name = "list_campaigns") =>
    \A i \in 1..Len(settled[1].resp.rows) :
      LET row == settled[1].resp.rows[i]
          out == ReturnedValue[i]
      IN /\ Defined(row.amount_micros) => out.budget = DivMillion(row.amount_micros.n)
         /\ out.metrics.cost = DivMillion(row.cost_micros.n)
         /\ out.metrics.avgCpc = DivMillion(row.average_cpc.n)
         /\ out.metrics.costPerConversion = DivMillion(row.cost_per_conversion.n)

\* The keywords of a list of formatted rows, and the values of the rows of
\* the i-th answer in the field the queries are ordered by.
KeywordsOf(list) == {list[i].keyword : i \in 1..Len(list)}
RankedValue(i, j) == settled[i].resp.rows[j][orderByField(params.metric.s)].n

\* C19 as stated: with topCount = 3 and bottomCount = 3 the top list is in
\* descending order of the chosen metric, the bottom list in ascending
\* order, and for a metric other than QUALITY_SCORE no row is in both lists.
C19_TopBottomOrderedDisjoint ==
  (/\ Succeeded
   /\ request.name = "get_top_bottom_keywords"
   /\ params.topCount = Num(3)
   /\ params.bottomCount = Num(3)) =>
    LET top == HandlerReturned.topPerformers
        bottom == HandlerReturned.bottomPerformers
    IN /\ Len(top) = Len(settled[1].resp.rows)
       /\ Len(bottom) = Len(settled[2].resp.rows)
       /\ \A j \in 1..Len(top) :
            top[j].keyword = settled[1].resp.rows[j]["ad_group_criterion.keyword.text"]
       /\ \A j \in 1..Len(bottom) :
            bottom[j].keyword = settled[2].resp.rows[j]["ad_group_criterion.keyword.text"]
       /\ \A j \in 1..(Len(top) - 1) : RankedValue(1, j) >= RankedValue(1, j + 1)
       /\ \A j \in 1..(Len(bottom) - 1) : RankedValue(2, j) <= RankedValue(2, j + 1)
       /\ params.metric.s # "QUALITY_SCORE" => KeywordsOf(top) \cap KeywordsOf(bottom) = {}

\* C20: the two queries of getTopBottomKeywords have the same SELECT, the
\* same filters and the same date window; the top query is ordered by the
\* metric's field DESC with LIMIT topCount, the bottom query by the same
\* field ASC with LIMIT bottomCount; the bottom query carries the extra
\* condition `<field> > 0` if and only if the metric is not QUALITY_SCORE.
C20_TopBottomQueries ==
  (request.name = "get_top_bottom_keywords" /\ Len(sent) >= 1) =>
    LET top == sent[1].query
        field == top.orderBy
    IN /\ sent[1].kind = "query"
       /\ field # ""
       /\ Arg("metric").s = "COST" => field = "metrics.cost_micros"
       /\ Arg("metric").s = "QUALITY_SCORE" =>
            field = "ad_group_criterion.quality_info.quality_score"
       /\ top.dir = "DESC"
       /\ top.limit = (IF Defined(Arg("topCount")) THEN Arg("topCount") ELSE Num(20))
       /\ \A i \in 1..Len(top.where) : top.where[i].op # ">"
       /\ Len(sent) >= 2 =>
            LET bottom == sent[2].query
            IN /\ sent[2].kind = "query"
               /\ bottom.from = top.from
               /\ bottom.select = top.select
               /\ bottom.orderBy = field
               /\ bottom.dir = "ASC"
               /\ bottom.limit =
                    (IF Defined(Arg("bottomCount")) THEN Arg("bottomCount") ELSE Num(20))
               /\ IF Arg("metric").s = "QUALITY_SCORE"
                    THEN bottom.where = top.where
                    ELSE bottom.where = Append(top.where, Cond(field, ">", Num(0)))

C20_Witness ==
  /\ Succeeded
  /\ request.name = "get_top_bottom_keywords"
  /\ Arg("metric") = Str("CLICKS")
  /\ Arg("campaignId") = Str("42")
  /\ Len(sent) = 2
  /\ sent[2].query.where[Len(sent[2].query.where)] = Cond("metrics.clicks", ">", Num(0))
  /\ Len(sent[2].query.where) = Len(sent[1].query.where) + 1
  /\ Len(settled[2].resp.rows) >= 1

----------------------------------------------------------------------------
\* Properties of the campaign comparison.

\* The sum of one metric over the campaigns of the result, in millionths.
SumOfMetric(campaigns, m) ==
  LET sum[n \in 0..Len(campaigns)] ==
        IF n = 0 THEN 0 ELSE sum[n - 1] + Micros(campaigns[n].metrics[m])
  IN sum[Len(campaigns)]

\* C21: in the result of getCampaignComparison each of totals.cost, clicks,
\* impressions, conversions and revenue is the sum of the per-campaign
\* values, and totals.roas is totals.revenue / totals.cost when totals.cost
\* is positive and 0 when it is 0.
C21_TotalsFromSums ==
  (Finished /\ outcome.kind = "success" /\ request.name = "get_campaign_comparison") =>
    LET totals == HandlerReturned.totals
        campaigns == HandlerReturned.campaigns
    IN /\ Len(campaigns) = Len(settled[1].resp.rows)
       /\ \A m \in {"cost", "clicks", "impressions", "conversions", "revenue"} :
            Micros(totals[m]) = SumOfMetric(campaigns, m)
       /\ totals.roas = IF SumOfMetric(campaigns, "cost") > 0
                           THEN Ratio(SumOfMetric(campaigns, "revenue"),
                                      SumOfMetric(campaigns, "cost"))
                           ELSE Num(0)

\* Two campaigns with roas 6 and 0: the totals give 6 / 3 = 2, where the
\* average of the two would be 3.
C21_Witness ==
  /\ Finished /\ outcome.kind = "success"
  /\ request.name = "get_campaign_comparison"
  /\ Len(HandlerReturned.campaigns) = 2
  /\ HandlerReturned.campaigns[1].metrics.roas = Num(6)
  /\ HandlerReturned.campaigns[1].metrics.cost = Num(1)
  /\ HandlerReturned.campaigns[2].metrics.roas = Num(0)
  /\ HandlerReturned.campaigns[2].metrics.cost = Num(2)
  /\ HandlerReturned.totals.cost = Num(3)
  /\ HandlerReturned.totals.revenue = Num(6)
  /\ HandlerReturned.totals.roas = Num(2)

----------------------------------------------------------------------------
\* Properties of concurrent invocations.

\* Invocation c run on its own: the dispatcher and the handler applied to
\* its arguments and to the first n settlements of its own requests.
RECURSIVE RunAlone(_, _)
RunAlone(c, n) ==
  IF n = 0
    THEN Advance([IdleCall EXCEPT
                    !.request = c.request,
                    !.params = IF CreatesClient(c.request.name, c.request.arguments)
                                 THEN Parsed(SchemaOf(c.request.name),
                                             c.request.arguments.fields)
                                 ELSE <<>>,
                    !.client = c.client],
                 Dispatch(c.request.name, c.request.arguments))
    ELSE LET before == RunAlone(c, n - 1)
         IN Advance([before EXCEPT !.settled = Append(@, c.settled[n])],
                    HandlerOf(c.request.name, before.params, before.at, c.settled[n]))

\* C22: under every interleaving of two invocations, the requests each has
\* issued and the result it returned are those of the invocation run on its
\* own with its arguments and the responses to its own requests, and the
\* two never use the same client handle.
C22_InvocationsIndependent ==
  /\ \A i \in DOMAIN calls :
       calls[i].pc # "idle" => calls[i] = RunAlone(calls[i], Len(calls[i].settled))
  /\ \A i, j \in DOMAIN calls :
       (i # j /\ calls[i].client # 0 /\ calls[j].client # 0) =>
         calls[i].client # calls[j].client

\* No ordering and no mutual exclusion: the invocation that started second
\* has finished a budget update for campaign 43 while the first, for
\* campaign 42, is still suspended at its first await.
C22_Witness ==
  /\ calls[1].client = 1 /\ calls[2].client = 2
  /\ calls[1].request.name = "update_campaign"
  /\ calls[2].request.name = "update_campaign"
  /\ calls[1].pc = "awaiting" /\ Len(calls[1].sent) = 1 /\ calls[1].settled = <<>>
  /\ calls[1].params.campaignId = Str("42")
  /\ calls[2].pc = "done" /\ calls[2].outcome.kind = "success"
  /\ calls[2].params.campaignId = Str("43")
  /\ Len(calls[2].sent) = 2
  /\ calls[2].sent[2].service = "campaignBudgets"

----------------------------------------------------------------------------
\* Properties of the list queries.

ListTools3 == {"list_campaigns", "list_ad_groups", "list_ads"}

\* The status field of the resource a list tool reads.
StatusFieldOf(name) ==
  CASE name = "list_campaigns" -> "campaign.status"
    [] name = "list_ad_groups" -> "ad_group.status"
    [] name = "list_ads" -> "ad_group_ad.status"

\* The id arguments a list tool declares, with the field each filters on.
IdFiltersOf(name) ==
  CASE name = "list_campaigns" -> {}
    [] name = "list_ad_groups" -> {<<"campaignId", "campaign.id">>}
    [] name = "list_ads" -> {<<"adGroupId", "ad_group.id">>, <<"campaignId", "campaign.id">>}

ConditionsOf(q) == {q.where[i] : i \in 1..Len(q.where)}
ListQueryBuilt == handlerInvoked /\ request.name \in ListTools3 /\ Len(sent) >= 1

\* C23 as stated: the conditions of the WHERE clause are exactly an id
\* equality for every id argument that is supplied and the status filter
\* when includeRemoved is false.
C23_AsStated ==
  ListQueryBuilt =>
    LET q == sent[1].query
    IN /\ ConditionsOf(q) =
            {Cond(f[2], "=", Arg(f[1])) : f \in {g \in IdFiltersOf(request.name) :
                                                  Defined(Arg(g[1]))}}
            \cup (IF params.includeRemoved = Bool(FALSE)
                    THEN {Cond(StatusFieldOf(request.name), "!=", Str("REMOVED"))}
                    ELSE {})
       /\ Len(q.where) = Cardinality(ConditionsOf(q))

\* C23, amended: the conditions of the WHERE clause are exactly an id
\* equality for every id argument supplied with a non-empty value, the
\* status filter when includeRemoved is false, and for list_campaigns one
\* condition on segments.date when dateRange is not ALL_TIME; with none of
\* them the query has no WHERE clause.
C23_WhereIsConjunction ==
  ListQueryBuilt =>
    LET q == sent[1].query
        dated == request.name = "list_campaigns" /\ params.dateRange # Str("ALL_TIME")
    IN /\ {c \in ConditionsOf(q) : c.lhs # "segments.date"} =
            {Cond(f[2], "=", Arg(f[1])) : f \in {g \in IdFiltersOf(request.name) :
                                                  Defined(Arg(g[1])) /\ Arg(g[1]) # Str("")}}
            \cup (IF params.includeRemoved = Bool(FALSE)
                    THEN {Cond(StatusFieldOf(request.name), "!=", Str("REMOVED"))}
                    ELSE {})
       /\ Cardinality({i \in 1..Len(q.where) : q.where[i].lhs = "segments.date"}) =
            (IF dated THEN 1 ELSE 0)
       /\ Len(q.where) = Cardinality(ConditionsOf(q))
       /\ \A i \in 1..Len(q.where) : q.where[i].word = ""

\* list_ads with both ids and includeRemoved left false: three conditions.
C23_Witness ==
  /\ ListQueryBuilt
  /\ request.name = "list_ads"
  /\ Arg("adGroupId") = Str("42")
  /\ Arg("campaignId") = Str("42")
  /\ Len(sent[1].query.where) = 3

\* C24 as stated: the field the comparison query is ordered by is one of
\* the fields it selects, and it is the field of the chosen metric:
\* metrics.cost_micros for COST, metrics.clicks for CLICKS,
\* metrics.conversions for CONVERSIONS.
C24_OrderByFieldSelected ==
  (request.name = "get_campaign_comparison" /\ Len(sent) >= 1) =>
    LET q == sent[1].query
    IN /\ q.orderBy \in q.select
       /\ params.metric = Str("COST") => q.orderBy = "metrics.cost_micros"
       /\ params.metric = Str("CLICKS") => q.orderBy = "metrics.clicks"
       /\ params.metric = Str("CONVERSIONS") => q.orderBy = "metrics.conversions"

----------------------------------------------------------------------------
\* Properties of the update masks.

\* The paths of the fields the caller supplied to update_conversion_action:
\* one per scalar argument, and one per value setting given inside
\* valueSettings.
SuppliedConversionPaths ==
  {updateConversionActionFieldOf(updateConversionActionArgs[i]) :
     i \in {j \in 1..Len(updateConversionActionArgs) :
              Defined(Arg(updateConversionActionArgs[j]))}}
  \cup (IF Defined(Arg("valueSettings"))
          THEN LET vs == Arg("valueSettings").fields
               IN (IF Defined(Get(vs, "defaultValue"))
                     THEN {"value_settings.default_value"} ELSE {})
                  \cup (IF Defined(Get(vs, "defaultCurrencyCode"))
                          THEN {"value_settings.default_currency_code"} ELSE {})
                  \cup (IF Defined(Get(vs, "alwaysUseDefaultValue"))
                          THEN {"value_settings.always_use_default_value"} ELSE {})
          ELSE {})

MaskPaths(op) == {op.paths[i] : i \in 1..Len(op.paths)}

\* C25 as stated: in the operation built by updateConversionAction and by
\* updateAd a path is in the update mask if and only if the caller supplied
\* a value for that field.
C25_MaskIsSuppliedFields ==
  /\ (request.name = "update_conversion_action" /\ Len(sent) >= 1) =>
       MaskPaths(sent[1].operations[1]) = SuppliedConversionPaths
  /\ (request.name = "update_ad" /\ Len(sent) >= 1) =>
       ("status" \in MaskPaths(sent[1].operations[1]) <=> Defined(Arg("status")))

----------------------------------------------------------------------------
\* Properties of the derived ratios.

ZeroOrAbsent(v) == ~Defined(v) \/ v = Num(0)
DivisionByZero(v) == v.s \in {"Infinity", "NaN"}

\* The roas of normalized metrics m against the row they were built from.
RoasGuarded(row, m) ==
  /\ m.roas = IF ZeroOrAbsent(Get(row, "metrics.cost_micros"))
                THEN Num(0) ELSE Divide(m.revenue, m.cost)
  /\ ~DivisionByZero(m.roas)

\* The same for cpa.
CpaGuarded(row, m) ==
  /\ m.cpa = IF ZeroOrAbsent(Get(row, "metrics.conversions"))
               THEN Num(0) ELSE Divide(m.cost, m.conversions)
  /\ ~DivisionByZero(m.cpa)

\* C26: in every row normalized by getCampaignComparison and by the
\* shopping tools the derived roas is 0 when the row's cost is 0 or absent
\* and revenue / cost otherwise, the derived cpa is 0 when conversions is 0
\* and cost / conversions otherwise, and no ratio is Infinity or NaN.
C26_DerivedRatiosGuarded ==
  (Finished /\ outcome.kind = "success") =>
    /\ request.name = "get_campaign_comparison" =>
         /\ \A i \in 1..Len(settled[1].resp.rows) :
              /\ RoasGuarded(settled[1].resp.rows[i], HandlerReturned.campaigns[i].metrics)
              /\ CpaGuarded(settled[1].resp.rows[i], HandlerReturned.campaigns[i].metrics)
         /\ ~DivisionByZero(HandlerReturned.totals.roas)
         /\ ~DivisionByZero(HandlerReturned.totals.cpa)
    /\ request.name \in {"get_product_performance", "get_product_partition_performance"} =>
         /\ Len(HandlerReturned) = Len(settled[1].resp.rows)
         /\ \A i \in 1..Len(settled[1].resp.rows) :
              RoasGuarded(settled[1].resp.rows[i], HandlerReturned[i].metrics)
    /\ request.name = "get_top_bottom_products" =>
         /\ \A i \in 1..Len(settled[1].resp.rows) :
              RoasGuarded(settled[1].resp.rows[i], HandlerReturned.topPerformers[i].metrics)
         /\ \A i \in 1..Len(settled[2].resp.rows) :
              RoasGuarded(settled[2].resp.rows[i], HandlerReturned.bottomPerformers[i].metrics)
         /\ Arg("metric") = Str("ROAS") =>
              \A i \in 1..Len(settled[1].resp.rows) :
                HandlerReturned.topPerformers[i].roas =
                  HandlerReturned.topPerformers[i].metrics.roas

\* A comparison of two campaigns: one with revenue and no cost (roas 0, not
\* 6 / 0), one with cost and no conversions (cpa 0, roas 3).
C26_Witness ==
  /\ Finished /\ outcome.kind = "success"
  /\ request.name = "get_campaign_comparison"
  /\ Len(settled[1].resp.rows) = 2
  /\ settled[1].resp.rows[1]["metrics.cost_micros"] = Num(0)
  /\ settled[1].resp.rows[1]["metrics.conversions_value"] = Num(6000000)
  /\ HandlerReturned.campaigns[1].metrics.roas = Num(0)
  /\ settled[1].resp.rows[2]["metrics.cost_micros"] = Num(2000000)
  /\ settled[1].resp.rows[2]["metrics.conversions"] = Num(0)
  /\ settled[1].resp.rows[2]["metrics.conversions_value"] = Num(6000000)
  /\ HandlerReturned.campaigns[2].metrics.cpa = Num(0)
  /\ HandlerReturned.campaigns[2].metrics.roas = Num(3)

\* C28 as stated: in every query of getTopBottomProducts a condition
\* written with AND in front has a condition written with WHERE before it.
C28_AndFollowsWhere ==
  request.name = "get_top_bottom_products" =>
    \A k \in 1..Len(sent) :
      \A i \in 1..Len(sent[k].query.where) :
        sent[k].query.where[i].word = "AND" =>
          \E j \in 1..(i - 1) : sent[k].query.where[j].word = "WHERE"

----------------------------------------------------------------------------
\* Properties of update_campaign, list_campaigns and add_negative_keywords.

\* C27 as stated: when update_campaign is called with a budget and returns
\* success, it has issued a budget update carrying amount_micros = budget x
\* 1,000,000; with no row from the budget lookup it does not return
\* success.
C27_BudgetUpdatedOnSuccess ==
  (Succeeded /\ request.name = "update_campaign" /\ Defined(params.budget)) =>
    /\ \E i \in 1..Len(sent) :
         /\ IsRequest(i, "campaignBudgets", "update")
         /\ sent[i].operations[1].fields.amount_micros = Num(params.budget.n * 1000000)
    /\ Len(settled[1].resp.rows) > 0

\* C29 as stated: every row field the normalizers of list_campaigns and
\* getCampaign read is in the SELECT list of the handler's query, and the
\* conversionRate of the output is the metrics.conversion_rate the API
\* returned.
C29_NormalizerReadsSelected ==
  /\ (request.name = "list_campaigns" /\ Len(sent) >= 1) =>
       listCampaignsReads \subseteq sent[1].query.select
  /\ (request.name = "get_campaign" /\ Len(sent) >= 1) =>
       getCampaignReads \subseteq sent[1].query.select
  /\ (Finished /\ outcome.kind = "success" /\ request.name = "list_campaigns") =>
       \A i \in 1..Len(settled[1].resp.rows) :
         HandlerReturned[i].metrics.conversionRate = settled[1].resp.rows[i].conversion_rate
  /\ (Finished /\ outcome.kind = "success" /\ request.name = "get_campaign") =>
       HandlerReturned.metrics.conversionRate = settled[1].resp.rows[1].conversion_rate

\* The one request of an add_negative_keywords invocation is a create on
\* the service `svc` whose operations are all negative and scoped, in the
\* field `scope`, to the resource `rn` and to nothing else.
NegativeCreateOn(svc, scope, rn) ==
  /\ Len(sent) = 1
  /\ sent[1].kind = "mutate"
  /\ sent[1].service = svc
  /\ sent[1].method = "create"
  /\ Len(sent[1].operations) = Len(params.keywords.items)
  /\ \A i \in 1..Len(sent[1].operations) :
       LET op == sent[1].operations[i]
       IN /\ op.type = "create"
          /\ Get(op.fields, scope) = rn
          /\ {"ad_group", "campaign"} \cap DOMAIN op.fields = {scope}
          /\ op.fields.negative = Bool(TRUE)
  /\ Succeeded =>
       ReturnedValue.level = (IF scope = "ad_group" THEN "ad_group" ELSE "campaign")

\* C30 as stated: add_negative_keywords called with both campaignId and
\* adGroupId issues exactly one create request, to the ad-group criteria
\* service, negative and scoped to the ad group, and reports level
\* 'ad_group'; with only campaignId it issues exactly one campaign-criteria
\* create request and reports level 'campaign'.
C30_AsStated ==
  (handlerInvoked /\ request.name = "add_negative_keywords") =>
    /\ (Defined(params.campaignId) /\ Defined(params.adGroupId)) =>
         NegativeCreateOn("adGroupCriteria", "ad_group",
                          ResourceName("adGroups", params.adGroupId.s))
    /\ (Defined(params.campaignId) /\ ~Defined(params.adGroupId)) =>
         NegativeCreateOn("campaignCriteria", "campaign",
                          ResourceName("campaigns", params.campaignId.s))

\* C30: the same, where an id counts as given when it is a non-empty
\* string: with a non-empty adGroupId (whatever campaignId is) the one
\* request is the ad-group create and the level 'ad_group'; with a
\* non-empty campaignId and an absent or empty adGroupId it is the
\* campaign create and the level 'campaign'.
C30_AdGroupLevelFirst ==
  (handlerInvoked /\ request.name = "add_negative_keywords") =>
    /\ Truthy(params.adGroupId) =>
         NegativeCreateOn("adGroupCriteria", "ad_group",
                          ResourceName("adGroups", params.adGroupId.s))
    /\ (Truthy(params.campaignId) /\ ~Truthy(params.adGroupId)) =>
         NegativeCreateOn("campaignCriteria", "campaign",
                          ResourceName("campaigns", params.campaignId.s))

C30_Witness ==
  /\ Succeeded
  /\ request.name = "add_negative_keywords"
  /\ Truthy(params.campaignId)
  /\ Truthy(params.adGroupId)
  /\ Len(params.keywords.items) = MaxKeywords
  /\ sent[1].service = "adGroupCriteria"
  /\ ReturnedValue.level = "ad_group"

====
